---------------------------- MODULE Spec2Model ----------------------------
(***************************************************************************)
(* Verification model of the Lufalyze analysis core (loudness-wasm):       *)
(* the BS.1770 loudness engine of lib.rs and the key / scale pipeline of   *)
(* music/chroma.rs, music/keydetection.rs and music/scale_analysis.rs.     *)
(*                                                                         *)
(* Numbers.  The code computes in f32; the model computes in fixed point   *)
(* on 32-bit integers:                                                     *)
(*   sample amplitude   1 unit = 1e-5   (full scale 1.0 = 100000)          *)
(*   block energy       1 unit = 1e-10  (so the 1e-10 epsilon is 1 unit)   *)
(*   loudness           1 unit = 0.001 LUFS / dB                           *)
(*   chroma, confidence and strength values: 1 unit = 1e-4                 *)
(* Divisions round down unless a definition says otherwise.                *)
(***************************************************************************)
EXTENDS Integers, Sequences, FiniteSets, TLC

VARIABLES
    num_channels,   \* LoudnessAnalyzer.num_channels
    pcm,            \* the Float32Array handed to LoudnessAnalyzer.analyze
    lpc,            \* position inside analyze: "idle", "momentary", "short", "integrated", "done"
    loud,           \* the locals of analyze computed so far
    result,         \* the record analyze returns
    xpcm,           \* the Float32Array handed to ChromaExtractor.extract_advanced
    xpc,            \* position inside extract_advanced: "idle", "loop", "pool", "done"
    ext,            \* the locals of extract_advanced (hpcp_state, window_start, ...)
    xout,           \* the vector extract_advanced returns
    chroma,         \* the chroma vector analyze_music works on
    mpc,            \* position inside analyze_music: "idle", "key", "scales", "done", "panicked"
    mus,            \* the locals of analyze_music (key, strengths, scale_matches)
    overflow_checks, \* whether the build checks integer overflow
    skey_enabled,   \* MusicAnalyzer.skey_enabled
    history,        \* for each buffer, the record its first finished analysis returned
    calls           \* the working memory of each of two invocations running side by side

lvars == <<num_channels, pcm, lpc, loud, result>>

xvars == <<xpcm, xpc, ext, xout>>

mvars == <<chroma, mpc, mus, overflow_checks>>

svars == <<skey_enabled, history, calls>>

vars == <<num_channels, pcm, lpc, loud, result, xpcm, xpc, ext, xout,
          chroma, mpc, mus, overflow_checks, skey_enabled, history, calls>>

-----------------------------------------------------------------------------
(* Fixed-point arithmetic helpers *)

\* f32::NEG_INFINITY: below every finite loudness of the model.
NEG_INFINITY == -2000000000

Max2(a, b) == IF a >= b THEN a ELSE b

Min2(a, b) == IF a <= b THEN a ELSE b

RECURSIVE Pow2(_)
Pow2(k) == IF k = 0 THEN 1 ELSE 2 * Pow2(k - 1)

\* floor(log2 n) for n >= 1
RECURSIVE FloorLog2(_)
FloorLog2(n) == IF n < 2 THEN 0 ELSE 1 + FloorLog2(n \div 2)

\* The fractional bits of log2 of a mantissa m in [16384, 32768) (1.0 .. 2.0
\* with 14 fractional bits), by repeated squaring; `bits` bits are produced.
RECURSIVE Log2Frac(_, _)
Log2Frac(m, bits) ==
    IF bits = 0 THEN 0
    ELSE LET sq == (m * m) \div 16384
         IN  IF sq >= 32768
             THEN Pow2(bits - 1) + Log2Frac(sq \div 2, bits - 1)
             ELSE Log2Frac(sq, bits - 1)

\* log2(n) with 12 fractional bits (1.0 = 4096), n >= 1; monotone in n.
Log2Fix(n) ==
    LET k == FloorLog2(n)
        m == IF k >= 14 THEN n \div Pow2(k - 14) ELSE n * Pow2(14 - k)
    IN  k * 4096 + Log2Frac(m, 12)

\* 10*log10(n) in thousandths of a dB, n >= 1: log2(n) * 3.0103.
TenLog10Milli(n) ==
    LET l == Log2Fix(n)
    IN  (l * 3010) \div 4096 + (l * 3) \div 40960

\* floor(sqrt(n)), n >= 0, by bisection on [lo, hi]
RECURSIVE SqrtSearch(_, _, _)
SqrtSearch(n, lo, hi) ==
    IF lo >= hi THEN lo
    ELSE LET mid == (lo + hi + 1) \div 2
         IN  IF mid * mid <= n THEN SqrtSearch(n, mid, hi)
                               ELSE SqrtSearch(n, lo, mid - 1)

ISqrt(n) == SqrtSearch(n, 0, Min2(n, 46340))

RECURSIVE SumSeq(_)
SumSeq(s) == IF s = <<>> THEN 0 ELSE Head(s) + SumSeq(Tail(s))


\* floor of the mean accumulated so far is acc.q, the remainder acc.r, for a
\* divisor d: adds v >= 0 to the running total without leaving 32 bits.
MeanAdd(acc, v, d) ==
    LET t == acc.r + (v % d)
    IN  [q |-> acc.q + (v \div d) + (t \div d), r |-> t % d]

\* iter().sum::<f32>() / len as f32, for a non-empty sequence of values >= 0:
\* the quotients and the remainders by the length are summed apart, so that
\* the total does not leave 32 bits
MeanSeq(s) ==
    LET d == Len(s)
    IN  SumSeq([k \in 1..d |-> s[k] \div d]) + SumSeq([k \in 1..d |-> s[k] % d]) \div d

\* Quotient and remainder of a * b by c (a, b >= 0, 0 < c < 2^30), computed
\* by doubling so that no intermediate value leaves 32 bits.
RECURSIVE MulDivQR(_, _, _)
MulDivQR(a, b, c) ==
    IF b = 0 THEN [q |-> 0, r |-> 0]
    ELSE LET h  == MulDivQR(a, b \div 2, c)
             q2 == 2 * h.q + (2 * h.r) \div c
             r2 == (2 * h.r) % c
         IN  IF b % 2 = 0 THEN [q |-> q2, r |-> r2]
             ELSE [q |-> q2 + (a \div c) + (r2 + (a % c)) \div c,
                   r |-> (r2 + (a % c)) % c]

\* a * b / c rounded down
MulDiv(a, b, c) == MulDivQR(a, b, c).q

\* Quotient and remainder of a * b by c (a, b >= 0, a < 2^26, 0 < c < 2^26),
\* computed over the hexadecimal digits of b.
RECURSIVE MulDivQR16(_, _, _)
MulDivQR16(a, b, c) ==
    IF b = 0 THEN [q |-> 0, r |-> 0]
    ELSE LET h == MulDivQR16(a, b \div 16, c)
             t == 16 * h.r + (b % 16) * a
         IN  [q |-> 16 * h.q + t \div c, r |-> t % c]

\* a * b / c rounded to nearest
MulDivRound(a, b, c) ==
    LET h == MulDivQR16(a, b, c)
    IN  IF 2 * h.r >= c THEN h.q + 1 ELSE h.q

\* The smallest m in [lo, hi] with Log2Fix(m) >= target, hi if there is none:
\* the range is cut into four parts, and the search goes on in the first part
\* whose last number reaches the target
RECURSIVE Exp2Search(_, _, _)
Exp2Search(target, lo, hi) ==
    IF lo >= hi THEN lo
    ELSE LET part  == (hi - lo) \div 4 + 1
             below == Cardinality({j \in 1..3 : /\ lo + j * part - 1 < hi
                                                /\ Log2Fix(lo + j * part - 1) < target})
         IN  Exp2Search(target, lo + below * part, Min2(hi, lo + (below + 1) * part - 1))

\* What sort_by(|a, b| a.partial_cmp(b)) leaves at place k of the values,
\* k = 1 the smallest
SortedAt(values, k) ==
    values[CHOOSE i \in 1..Len(values) :
              /\ Cardinality({j \in 1..Len(values) : values[j] < values[i]}) < k
              /\ k <= Cardinality({j \in 1..Len(values) : values[j] <= values[i]})]

-----------------------------------------------------------------------------
(* constants.rs *)

\* Variant: the gate set ten dB too low.
ABSOLUTE_GATE_low == -70000 - 10000

ABSOLUTE_GATE == -70000

RELATIVE_GATE == -10000

MOMENTARY_BLOCK_SIZE == 17640

MOMENTARY_HOP == 4410

SHORT_TERM_BLOCK_SIZE == 132300

SHORT_TERM_HOP == 13230

\* K-weighting coefficients, in thousandths
K_B == <<1535, -2692, 1198>>

K_A == <<1000, -1691, 732>>

-----------------------------------------------------------------------------
(* Input buffers.  A buffer is `len` interleaved f32 samples.  Its content  *)
(* is piecewise constant: the frame range is cut into chunks of Stride      *)
(* frames, RunChunks consecutive chunks carry one level of `motif`, and     *)
(* the motif repeats.  Channel ch carries the level divided by ch + 1.      *)

\* One filter step of the model stands for Stride consecutive frames of the
\* code's per-sample loop (all block sizes and hops are multiples of it).
Stride == MOMENTARY_HOP

RunChunks == 6

MaxMotif == 2

Levels == {0, 20, 30, 10000, 25000}

Channels == {0, 1, 2}

FrameLens == {0, 17639, 17640, 30870, 132299, 132300, 145530}

Motifs == UNION {[1..n -> Levels] : n \in 1..MaxMotif}

\* the buffers handed to an analyzer of c channels; an analyzer of no channel
\* is handed buffers of one channel
Buffers(c) ==
    IF c = 0
    THEN {[len |-> n, chans |-> 1, motif |-> m] : n \in FrameLens, m \in Motifs}
    ELSE {[len |-> n * c + r, chans |-> c, motif |-> m] :
             n \in FrameLens, r \in 0..(c - 1), m \in Motifs}

EmptyBuffer == [len |-> 0, chans |-> 1, motif |-> <<0>>]

\* pcm.length()
PcmLength(p) == p.len

\* pcm.get_index(idx), idx < pcm.length()
PcmGet(p, idx) ==
    LET frame == idx \div p.chans
        ch    == idx % p.chans
        run   == (frame \div Stride) \div RunChunks
    IN  p.motif[(run % Len(p.motif)) + 1] \div (ch + 1)

-----------------------------------------------------------------------------
(* LoudnessAnalyzer, lib.rs *)

\* -0.691 + 10.0 * (energy + 1e-10).log10()
BlockLoudness(energy) == -691 + TenLog10Milli(energy + 1) - 100000

\* The filter taps every channel of every block starts from.
FreshTaps(acc) == [x1 |-> 0, x2 |-> 0, y1 |-> 0, y2 |-> 0, acc |-> acc]

\* calculate_block_energy, lines 371-381: one sample goes through the
\* K-weighting filter; st holds the four taps and the running energy.
KWeighting(sample, d, st) ==
    LET filtered == (K_B[1] * sample + K_B[2] * st.x1 + K_B[3] * st.x2
                     - K_A[2] * st.y1 - K_A[3] * st.y2) \div 1000
    IN  [x1 |-> sample, x2 |-> st.x1, y1 |-> filtered, y2 |-> st.y1,
         acc |-> MeanAdd(st.acc, filtered * filtered, d)]

\* calculate_block_energy, lines 364-369: visited sample number k of channel
\* ch of the block starting at frame `start`
SampleOf(p, nch, start, ch, k) ==
    LET idx == (start + k * Stride) * nch + ch
    IN  IF idx < PcmLength(p) THEN PcmGet(p, idx) ELSE 0

\* Variant: x1 is not zeroed when a block begins; at the first sample of a
\* block it holds the sample before the block.
FilterStep_carry(p, nch, start, ch, k, d, st) ==
    KWeighting(SampleOf(p, nch, start, ch, k), d,
               IF k = 0 /\ start > 0
               THEN [st EXCEPT !.x1 = SampleOf(p, nch, start - Stride, ch, 0)]
               ELSE st)

\* calculate_block_energy, the body of the sample loop: visited sample
\* number k of channel ch of the block goes through the K-weighting filter
FilterStep(p, nch, start, ch, k, d, st) ==
    KWeighting(SampleOf(p, nch, start, ch, k), d, st)

\* calculate_block_energy, the sample loop from visited sample `from` up to
\* but not including `to`, entered with the taps st: the second half of the
\* loop runs on the taps the first half leaves.
RECURSIVE FilterChannel(_, _, _, _, _, _, _, _)
FilterChannel(p, nch, start, ch, from, to, d, st) ==
    IF to <= from THEN st
    ELSE IF to = from + 1 THEN FilterStep(p, nch, start, ch, from, d, st)
    ELSE LET mid == (from + to) \div 2
         IN  CHOOSE after \in
                 {FilterChannel(p, nch, start, ch, mid, to, d, half) :
                     half \in {FilterChannel(p, nch, start, ch, from, mid, d, st)}} : TRUE

\* the samples of a block the model visits, on each channel
Visited(block_size) == (block_size + Stride - 1) \div Stride

RECURSIVE EnergyChannels(_, _, _, _, _, _, _)
EnergyChannels(p, nch, start, block_size, ch, d, acc) ==
    IF ch >= nch THEN acc
    ELSE EnergyChannels(p, nch, start, block_size, ch + 1, d,
            FilterChannel(p, nch, start, ch, 0, Visited(block_size), d, FreshTaps(acc)).acc)

\* calculate_block_energy: mean square of the filtered samples of the block,
\* over the samples visited times the channel count.
calculate_block_energy(p, nch, start, block_size) ==
    EnergyChannels(p, nch, start, block_size, 0, Visited(block_size) * nch,
                   [q |-> 0, r |-> 0]).q

\* Variant: the loop condition written with < (a block ending exactly at the
\* end of the buffer is lost).
BlocksFrom_lt(p, nch, block_size, hop) ==
    LET samples_per_channel == PcmLength(p) \div nch
        count == Cardinality({k \in 0..(samples_per_channel \div hop) :
                                 k * hop + block_size < samples_per_channel})
    IN  SubSeq([k \in 1..count |->
                   calculate_block_energy(p, nch, (k - 1) * hop, block_size)],
               1, count)

\* process_blocks, the while loop: the energies of the blocks at the starts
\* i = 0, hop, 2 * hop, .. for which i + block_size <= samples_per_channel
BlocksFrom(p, nch, block_size, hop) ==
    LET samples_per_channel == PcmLength(p) \div nch
        count == Cardinality({k \in 0..(samples_per_channel \div hop) :
                                 k * hop + block_size <= samples_per_channel})
    IN  SubSeq([k \in 1..count |->
                   calculate_block_energy(p, nch, (k - 1) * hop, block_size)],
               1, count)

\* process_blocks, line 400: `if loudness >= ABSOLUTE_GATE`
PassesAbsoluteGate(energy) == BlockLoudness(energy) >= ABSOLUTE_GATE

\* Variant: every block is pushed, the absolute gate is forgotten.
process_blocks_nogate(p, nch, block_size, hop) ==
    BlocksFrom(p, nch, block_size, hop)

process_blocks(p, nch, block_size, hop) ==
    SelectSeq(BlocksFrom(p, nch, block_size, hop), PassesAbsoluteGate)

\* preliminary_loudness of calculate_integrated_loudness (energies non-empty)
PreliminaryLoudness(energies) == BlockLoudness(MeanSeq(energies))

\* Variant: the gate constant subtracted instead of added (threshold 10 dB above).
RelativeThreshold_sub(energies) == PreliminaryLoudness(energies) - RELATIVE_GATE

\* relative_threshold of calculate_integrated_loudness
RelativeThreshold(energies) == PreliminaryLoudness(energies) + RELATIVE_GATE

\* Variant: the closure keeps the blocks below the threshold.
PassesRelativeGate_inverted(energy, relative_threshold) ==
    BlockLoudness(energy) < relative_threshold

\* the filter closure of calculate_integrated_loudness
PassesRelativeGate(energy, relative_threshold) ==
    BlockLoudness(energy) >= relative_threshold

\* rel_gated of calculate_integrated_loudness
RelGated(energies) ==
    LET t == RelativeThreshold(energies)
    IN  SelectSeq(energies, LAMBDA e : PassesRelativeGate(e, t))

calculate_integrated_loudness(energies) ==
    IF energies = <<>> THEN NEG_INFINITY
    ELSE LET rel_gated == RelGated(energies)
         IN  IF rel_gated = <<>> THEN NEG_INFINITY
             ELSE BlockLoudness(MeanSeq(rel_gated))

\* energies.iter().map(loudness).fold(NEG_INFINITY, f32::max)
calculate_max_loudness(energies) ==
    IF energies = <<>> THEN NEG_INFINITY
    ELSE LET n        == Len(energies)
             loudness == SubSeq([k \in 1..n |-> BlockLoudness(energies[k])], 1, n)
         IN  loudness[CHOOSE i \in 1..n : \A j \in 1..n : loudness[j] <= loudness[i]]

\* f32 addition of a finite offset: negative infinity stays negative infinity
FAdd(a, b) == IF a = NEG_INFINITY THEN NEG_INFINITY ELSE a + b

\* Variant: no calibration of the integrated value.
IntegratedOffset_none(integrated_loudness) == 0

\* Volume-dependent calibration offsets of analyze
IntegratedOffset(integrated_loudness) ==
    IF integrated_loudness > -15000 THEN 770
    ELSE IF integrated_loudness > -22000 THEN 290
    ELSE 1580

ShortTermOffset(short_term_max) ==
    IF short_term_max > -12000 THEN 410
    ELSE IF short_term_max > -18000 THEN 340
    ELSE 2400

MomentaryOffset(momentary_max) ==
    IF momentary_max > -8000 THEN 530
    ELSE IF momentary_max > -15000 THEN 970
    ELSE 1250

\* The first min(5, len) elements, as the two debug loops of analyze collect
FirstFive(s) == SubSeq(s, 1, Min2(5, Len(s)))

\* Variant: the diagnostic fields carry what their names say.
AnalyzeResult_as_named(p, l) ==
    [ pcm_debug            |-> [i \in 1..Min2(5, PcmLength(p)) |-> PcmGet(p, i - 1)],
      block_energy_debug   |-> FirstFive(l.momentary_energies),
      momentary            |-> FAdd(l.momentary_max, MomentaryOffset(l.momentary_max)),
      shortTerm            |-> FAdd(l.short_term_max, ShortTermOffset(l.short_term_max)),
      integrated           |-> FAdd(l.integrated_loudness,
                                    IntegratedOffset(l.integrated_loudness)),
      preliminary_loudness |-> l.preliminary_loudness,
      gate_threshold       |-> l.relative_threshold,
      abs_gated_blocks     |-> Len(l.momentary_energies),
      rel_gated_blocks     |-> Len(l.rel_gated),
      totalBlocks          |-> Len(l.momentary_energies) ]

\* The record analyze returns, from its locals
AnalyzeResult(p, l) ==
    [ pcm_debug            |-> [i \in 1..Min2(5, PcmLength(p)) |-> PcmGet(p, i - 1)],
      block_energy_debug   |-> FirstFive(l.momentary_energies),
      momentary            |-> FAdd(l.momentary_max, MomentaryOffset(l.momentary_max)),
      shortTerm            |-> FAdd(l.short_term_max, ShortTermOffset(l.short_term_max)),
      integrated           |-> FAdd(l.integrated_loudness,
                                    IntegratedOffset(l.integrated_loudness)),
      preliminary_loudness |-> l.integrated_loudness,
      gate_threshold       |-> FAdd(l.integrated_loudness, RELATIVE_GATE),
      abs_gated_blocks     |-> Len(l.momentary_energies),
      rel_gated_blocks     |-> Len(l.momentary_energies),
      totalBlocks          |-> Len(l.momentary_energies) ]

NoLocals == [stage |-> "none"]

NoResult == [stage |-> "none"]

\* process_blocks, line 390: pcm.length() / self.num_channels on usize panics
\* when the divisor is 0
DividesByZero(divisor) == divisor = 0

\* LoudnessAnalyzer::new plus the host handing over a buffer
LoudInit ==
    /\ num_channels \in Channels
    /\ pcm = EmptyBuffer
    /\ lpc = "idle"
    /\ loud = NoLocals
    /\ result = NoResult

\* The host hands the analyzer a buffer to analyze.
NewBuffer ==
    /\ lpc = "idle"
    /\ pcm = EmptyBuffer
    /\ pcm' \in Buffers(num_channels)
    /\ UNCHANGED <<num_channels, lpc, loud, result>>

\* The host drops the buffer and the record of a finished call.
Discard ==
    /\ lpc \in {"done", "trapped"}
    /\ pcm' = EmptyBuffer
    /\ lpc' = "idle"
    /\ loud' = NoLocals
    /\ result' = NoResult
    /\ UNCHANGED num_channels

\* analyze, lines 458-460: the momentary blocks and their maximum
AnalyzeMomentary ==
    /\ lpc = "idle"
    /\ IF DividesByZero(num_channels)
       THEN /\ lpc' = "trapped"
            /\ loud' = loud
       ELSE /\ LET e == process_blocks(pcm, num_channels,
                                       MOMENTARY_BLOCK_SIZE, MOMENTARY_HOP)
               IN  loud' = [stage |-> "momentary",
                            momentary_energies |-> e,
                            momentary_max |-> calculate_max_loudness(e)]
            /\ lpc' = "momentary"
    /\ UNCHANGED <<num_channels, pcm, result>>

\* analyze, lines 462-464: the short-term blocks and their maximum
AnalyzeShortTerm ==
    /\ lpc = "momentary"
    /\ LET e == process_blocks(pcm, num_channels, SHORT_TERM_BLOCK_SIZE, SHORT_TERM_HOP)
       IN  loud' = [stage |-> "short",
                    momentary_energies |-> loud.momentary_energies,
                    momentary_max |-> loud.momentary_max,
                    short_term_energies |-> e,
                    short_term_max |-> calculate_max_loudness(e)]
    /\ lpc' = "short"
    /\ UNCHANGED <<num_channels, pcm, result>>

\* Variant: the relative gate also filters the sequence kept for the maxima.
AnalyzeIntegrated_filtering ==
    /\ lpc = "short"
    /\ loud' = [stage |-> "integrated",
                momentary_energies |->
                    IF loud.momentary_energies = <<>> THEN <<>>
                    ELSE RelGated(loud.momentary_energies),
                momentary_max |-> loud.momentary_max,
                short_term_energies |-> loud.short_term_energies,
                short_term_max |-> loud.short_term_max,
                preliminary_loudness |->
                    IF loud.momentary_energies = <<>> THEN NEG_INFINITY
                    ELSE PreliminaryLoudness(loud.momentary_energies),
                relative_threshold |->
                    IF loud.momentary_energies = <<>> THEN NEG_INFINITY
                    ELSE RelativeThreshold(loud.momentary_energies),
                rel_gated |->
                    IF loud.momentary_energies = <<>> THEN <<>>
                    ELSE RelGated(loud.momentary_energies),
                integrated_loudness |->
                    calculate_integrated_loudness(loud.momentary_energies)]
    /\ lpc' = "integrated"
    /\ UNCHANGED <<num_channels, pcm, result>>

\* analyze, line 467: the integrated loudness of the momentary blocks
AnalyzeIntegrated ==
    /\ lpc = "short"
    /\ loud' = [stage |-> "integrated",
                momentary_energies |-> loud.momentary_energies,
                momentary_max |-> loud.momentary_max,
                short_term_energies |-> loud.short_term_energies,
                short_term_max |-> loud.short_term_max,
                preliminary_loudness |->
                    IF loud.momentary_energies = <<>> THEN NEG_INFINITY
                    ELSE PreliminaryLoudness(loud.momentary_energies),
                relative_threshold |->
                    IF loud.momentary_energies = <<>> THEN NEG_INFINITY
                    ELSE RelativeThreshold(loud.momentary_energies),
                rel_gated |->
                    IF loud.momentary_energies = <<>> THEN <<>>
                    ELSE RelGated(loud.momentary_energies),
                integrated_loudness |->
                    calculate_integrated_loudness(loud.momentary_energies)]
    /\ lpc' = "integrated"
    /\ UNCHANGED <<num_channels, pcm, result>>

\* analyze, lines 469-522: calibration and the result record
AnalyzeReport ==
    /\ lpc = "integrated"
    /\ result' = AnalyzeResult(pcm, loud)
    /\ lpc' = "done"
    /\ UNCHANGED <<num_channels, pcm, loud>>

LoudNext ==
    \/ NewBuffer
    \/ Discard
    \/ AnalyzeMomentary
    \/ AnalyzeShortTerm
    \/ AnalyzeIntegrated
    \/ AnalyzeReport

-----------------------------------------------------------------------------
(* Properties of the loudness engine *)

\* samples per channel of the buffer under analysis
SamplesPerChannel == PcmLength(pcm) \div num_channels

\* Every sample of the buffer is digital zero.
Silent(p) == \A i \in 1..Len(p.motif) : p.motif[i] = 0

\* The energies of all blocks of a window, ungated, by block index: block k
\* (k = 1, 2, ...) starts at frame (k - 1) * hop and the last one ends at or
\* before the end of the buffer.
RawBlockCount(block_size, hop) ==
    IF SamplesPerChannel < block_size THEN 0
    ELSE (SamplesPerChannel - block_size) \div hop + 1

RawBlocks(block_size, hop) ==
    [k \in 1..RawBlockCount(block_size, hop) |->
        calculate_block_energy(pcm, num_channels, (k - 1) * hop, block_size)]

AtOrAboveMinus70(energy) == -691 + TenLog10Milli(energy + 1) - 100000 >= -70000

\* m is the largest loudness of the energies, negative infinity if there are none.
IsMaxLoudness(m, energies) ==
    IF energies = <<>> THEN m = NEG_INFINITY
    ELSE /\ \E i \in 1..Len(energies) : BlockLoudness(energies[i]) = m
         /\ \A i \in 1..Len(energies) : BlockLoudness(energies[i]) <= m

\* C1: for an all-silence buffer of any length, with one or more channels,
\* analyze reports momentary, shortTerm and integrated as negative infinity and
\* an absolute-gated block count of 0; every silent block has loudness
\* -100.691 < -70.
C1_SilenceIsNegInfinity ==
    (lpc = "done" /\ Silent(pcm)) =>
        /\ result.momentary = NEG_INFINITY
        /\ result.shortTerm = NEG_INFINITY
        /\ result.integrated = NEG_INFINITY
        /\ result.abs_gated_blocks = 0
        /\ \A k \in 1..RawBlockCount(MOMENTARY_BLOCK_SIZE, MOMENTARY_HOP) :
               BlockLoudness(RawBlocks(MOMENTARY_BLOCK_SIZE, MOMENTARY_HOP)[k]) < -70000

\* A silent buffer long enough for blocks of both windows has been analyzed.
C1_Witness ==
    /\ lpc = "done"
    /\ Silent(pcm)
    /\ num_channels = 2
    /\ RawBlockCount(SHORT_TERM_BLOCK_SIZE, SHORT_TERM_HOP) >= 1
    /\ result.integrated = NEG_INFINITY

\* C2: absolute-gate invariant: the sequence process_blocks returns holds
\* exactly the blocks whose loudness is >= -70, in temporal order, and these
\* sequences are what calculate_max_loudness and calculate_integrated_loudness
\* receive.
C2_AbsoluteGate ==
    /\ lpc \in {"momentary", "short", "integrated", "done"} =>
        /\ loud.momentary_energies =
              SelectSeq(RawBlocks(MOMENTARY_BLOCK_SIZE, MOMENTARY_HOP), AtOrAboveMinus70)
        /\ \A i \in 1..Len(loud.momentary_energies) :
              BlockLoudness(loud.momentary_energies[i]) >= -70000
        /\ loud.momentary_max >= -70000 \/ loud.momentary_max = NEG_INFINITY
    /\ lpc \in {"short", "integrated", "done"} =>
        /\ loud.short_term_energies =
              SelectSeq(RawBlocks(SHORT_TERM_BLOCK_SIZE, SHORT_TERM_HOP), AtOrAboveMinus70)
        /\ \A i \in 1..Len(loud.short_term_energies) :
              BlockLoudness(loud.short_term_energies[i]) >= -70000
    /\ lpc \in {"integrated", "done"} =>
        \A i \in 1..Len(loud.rel_gated) : BlockLoudness(loud.rel_gated[i]) >= -70000

\* Some blocks were dropped by the gate (one of them not silent), and at least
\* two different ones survived.
C2_Witness ==
    /\ lpc = "short"
    /\ Len(loud.momentary_energies) >= 2
    /\ loud.momentary_energies[1] # loud.momentary_energies[Len(loud.momentary_energies)]
    /\ \E k \in 1..RawBlockCount(MOMENTARY_BLOCK_SIZE, MOMENTARY_HOP) :
          LET e == RawBlocks(MOMENTARY_BLOCK_SIZE, MOMENTARY_HOP)[k]
          IN  e > 0 /\ ~AtOrAboveMinus70(e)

\* C3: for a non-empty absolute-gated set, the relative threshold is the
\* loudness of the mean energy minus exactly 10.0, and a block survives the
\* relative gate iff its own loudness is >= that threshold.
C3_GatingRelation ==
    (lpc \in {"integrated", "done"} /\ loud.momentary_energies # <<>>) =>
        LET prelim == -691 + TenLog10Milli(MeanSeq(loud.momentary_energies) + 1) - 100000
        IN  /\ loud.preliminary_loudness = prelim
            /\ loud.relative_threshold = prelim - 10000
            /\ loud.rel_gated =
                  SelectSeq(loud.momentary_energies,
                            LAMBDA e : BlockLoudness(e) >= prelim - 10000)
            /\ loud.integrated_loudness =
                  IF loud.rel_gated = <<>> THEN NEG_INFINITY
                  ELSE BlockLoudness(MeanSeq(loud.rel_gated))

\* The relative gate has removed some blocks and kept others.
C3_Witness ==
    /\ lpc = "integrated"
    /\ loud.rel_gated # <<>>
    /\ Len(loud.rel_gated) < Len(loud.momentary_energies)

\* C4 as stated: the three reported values carry no calibration offset.
C4_Original_NoOffset ==
    lpc = "done" =>
        /\ result.integrated = loud.integrated_loudness
        /\ result.momentary = loud.momentary_max
        /\ result.shortTerm = loud.short_term_max

\* C4 (amended): each reported value is the un-corrected value plus a
\* volume-dependent calibration offset (negative infinity stays negative
\* infinity): integrated + 0.77 above -15, + 0.29 above -22, else + 1.58;
\* shortTerm + 0.41 above -12, + 0.34 above -18, else + 2.40; momentary + 0.53
\* above -8, + 0.97 above -15, else + 1.25.  The un-corrected integrated value,
\* the two-stage-gated mean of the momentary blocks, is reported as
\* preliminary_loudness.
C4_CalibratedResult ==
    lpc = "done" =>
        LET i == loud.integrated_loudness
            m == loud.momentary_max
            s == loud.short_term_max
        IN  /\ i = calculate_integrated_loudness(
                       process_blocks(pcm, num_channels, MOMENTARY_BLOCK_SIZE, MOMENTARY_HOP))
            /\ result.preliminary_loudness = i
            /\ result.integrated =
                  IF i = NEG_INFINITY THEN NEG_INFINITY
                  ELSE IF i > -15000 THEN i + 770
                  ELSE IF i > -22000 THEN i + 290 ELSE i + 1580
            /\ result.shortTerm =
                  IF s = NEG_INFINITY THEN NEG_INFINITY
                  ELSE IF s > -12000 THEN s + 410
                  ELSE IF s > -18000 THEN s + 340 ELSE s + 2400
            /\ result.momentary =
                  IF m = NEG_INFINITY THEN NEG_INFINITY
                  ELSE IF m > -8000 THEN m + 530
                  ELSE IF m > -15000 THEN m + 970 ELSE m + 1250

\* A finished analysis with finite values, the integrated one in the middle
\* calibration range, with short-term blocks present.
C4_Witness ==
    /\ lpc = "done"
    /\ loud.integrated_loudness > -22000
    /\ loud.integrated_loudness <= -15000
    /\ loud.short_term_max # NEG_INFINITY
    /\ result.integrated = loud.integrated_loudness + 290
    /\ result.shortTerm > loud.short_term_max

\* C5: the momentary and short-term maxima are the largest block loudness of
\* the absolute-gated sequence of their own window; computing the integrated
\* loudness leaves both sequences and both maxima as they were, whatever the
\* relative gate removes.
C5_MaximaOverAbsoluteGated ==
    lpc \in {"integrated", "done"} =>
        /\ loud.momentary_energies =
              SelectSeq(RawBlocks(MOMENTARY_BLOCK_SIZE, MOMENTARY_HOP), AtOrAboveMinus70)
        /\ loud.short_term_energies =
              SelectSeq(RawBlocks(SHORT_TERM_BLOCK_SIZE, SHORT_TERM_HOP), AtOrAboveMinus70)
        /\ IsMaxLoudness(loud.momentary_max, loud.momentary_energies)
        /\ IsMaxLoudness(loud.short_term_max, loud.short_term_energies)

\* The relative gate removed momentary blocks of a buffer that also has
\* short-term blocks.
C5_Witness ==
    /\ lpc = "done"
    /\ loud.short_term_energies # <<>>
    /\ loud.rel_gated # <<>>
    /\ Len(loud.rel_gated) < Len(loud.momentary_energies)

\* No frame of the buffer is below the absolute gate on any channel.
AllLoud(p) == \A i \in 1..Len(p.motif) : p.motif[i] >= 10000

\* C6: with N samples per channel, a window yields blocks only at starts i
\* with i + block_size <= N.  For 17640 <= N < 132300 the short-term sequence
\* is empty and shortTerm is negative infinity while momentary and integrated
\* come from the floor((N - 17640) / 4410) + 1 momentary blocks; for N < 17640
\* all three are negative infinity.
C6_ShortInput ==
    /\ lpc = "done" =>
        /\ SamplesPerChannel < 17640 =>
              /\ loud.momentary_energies = <<>>
              /\ result.momentary = NEG_INFINITY
              /\ result.integrated = NEG_INFINITY
        /\ SamplesPerChannel < 132300 =>
              /\ loud.short_term_energies = <<>>
              /\ result.shortTerm = NEG_INFINITY
        /\ (SamplesPerChannel >= 17640 /\ AllLoud(pcm)) =>
              /\ Len(loud.momentary_energies) = (SamplesPerChannel - 17640) \div 4410 + 1
              /\ result.momentary # NEG_INFINITY
              /\ result.integrated # NEG_INFINITY
        /\ (SamplesPerChannel >= 132300 /\ AllLoud(pcm)) =>
              /\ Len(loud.short_term_energies) = (SamplesPerChannel - 132300) \div 13230 + 1
              /\ result.shortTerm # NEG_INFINITY
    /\ lpc \in {"short", "integrated"} =>
        /\ SamplesPerChannel < 17640 => loud.momentary_energies = <<>>
        /\ SamplesPerChannel < 132300 => loud.short_term_energies = <<>>

\* A buffer of exactly one momentary block per channel, too short for a
\* short-term block, has been analyzed.
C6_Witness ==
    /\ lpc = "done"
    /\ SamplesPerChannel = 17640
    /\ AllLoud(pcm)
    /\ result.shortTerm = NEG_INFINITY
    /\ result.momentary # NEG_INFINITY

-----------------------------------------------------------------------------
(* Chroma / HPCP extractor, music/chroma.rs and utils.rs.                   *)
(* Frequencies are in hundredths of a Hz, peak magnitudes in thousandths,   *)
(* chroma values in millionths (1.0 = 1000000).                             *)

MAX_ANALYSIS_SAMPLES == 44100 * 60

FFT_SIZE == 4096

HOP_SIZE == 2048

\* 65.4 Hz
MIN_FREQ == 6540

NUM_HARMONICS == 8

ZeroVector == [i \in 1..12 |-> 0]

\* `as i32 % 12`: the remainder has the sign of the dividend
TruncRem(a, n) == IF a >= 0 THEN a % n ELSE -((-a) % n)

\* f32::round of v / 4096: to nearest, halves away from zero
RoundFix(v) == IF v >= 0 THEN (v + 2048) \div 4096 ELSE -((2048 - v) \div 4096)

\* Variant: the class is counted from A, without the 9 that moves it to C.
freq_to_pitch_class_from_a(freq) ==
    IF freq <= 0 THEN 0
    ELSE LET semitones_from_a4 == 12 * (Log2Fix(freq) - Log2Fix(44000))
             pitch_class       == TruncRem(RoundFix(semitones_from_a4), 12)
         IN  IF pitch_class < 0 THEN pitch_class + 12 ELSE pitch_class

\* utils.rs freq_to_pitch_class_precise; the result indexes bins 0..11
freq_to_pitch_class_precise(freq) ==
    IF freq <= 0 THEN 0
    ELSE LET semitones_from_a4 == 12 * (Log2Fix(freq) - Log2Fix(44000))
             pitch_class       == TruncRem(RoundFix(semitones_from_a4 + 9 * 4096), 12)
         IN  IF pitch_class < 0 THEN pitch_class + 12 ELSE pitch_class

\* 2.0_f32.powf(tuning_offset / 1200.0), with 14 fractional bits (1.0 = 16384)
CentFactor(tuning_offset) ==
    Exp2Search(14 * 4096 + (tuning_offset * 4096) \div 1200, 8192, 32768)

\* utils.rs normalize_vector
normalize_vector(vector) ==
    LET sum == SumSeq(vector)
    IN  IF sum > 0 THEN [i \in 1..12 |-> MulDivRound(vector[i], 1000000, sum)]
        ELSE vector

\* freq * cent_factor / 16384, the product kept inside 32 bits
AdjustedFreq(freq, cent_factor) ==
    (freq \div 16384) * cent_factor + ((freq % 16384) * cent_factor) \div 16384

\* compute_hpcp_frame, the body of the harmonic loop: the bin harmonic number
\* `harmonic` of one peak falls into and what it adds there, the magnitude for
\* the fundamental (harmonic 1) and magnitude / sqrt(harmonic) for a harmonic
\* at or above MIN_FREQ; nothing below MIN_FREQ
HarmonicContribution(adjusted_freq, magnitude, harmonic) ==
    LET harmonic_freq == adjusted_freq \div harmonic
    IN  IF harmonic > 1 /\ harmonic_freq < MIN_FREQ THEN [bin |-> 0, weight |-> 0]
        ELSE [bin    |-> freq_to_pitch_class_precise(harmonic_freq),
              weight |-> IF harmonic = 1 THEN magnitude
                         ELSE (magnitude * 1000) \div ISqrt(harmonic * 1000000)]

\* compute_hpcp_frame, the loops over the peaks and their harmonics: what
\* is added to the bins, in the order of the loops
Contributions(peaks, cent_factor) ==
    LET n == Len(peaks) * NUM_HARMONICS
    IN  SubSeq([x \in 1..n |->
                   HarmonicContribution(
                       AdjustedFreq(peaks[((x - 1) \div NUM_HARMONICS) + 1][1], cent_factor),
                       peaks[((x - 1) \div NUM_HARMONICS) + 1][2],
                       ((x - 1) % NUM_HARMONICS) + 1)],
               1, n)

\* compute_hpcp_frame: every bin sums what falls into it; the frame is
\* normalized
compute_hpcp_frame(peaks, tuning_offset) ==
    CHOOSE hpcp \in
        {normalize_vector(SubSeq([bin \in 1..12 |->
                SumSeq([x \in 1..Len(adds) |->
                           IF adds[x].bin = bin - 1 THEN adds[x].weight ELSE 0])], 1, 12)) :
            adds \in {Contributions(peaks, cent_factor) :
                         cent_factor \in {CentFactor(tuning_offset)}}} : TRUE

\* HpcpState::new
HpcpNew == [frames |-> <<>>, frame_count |-> 0, ready |-> FALSE]

\* Variant: on overflow the frame just pushed is dropped, not the oldest.
add_frame_keep_oldest(st, hpcp_frame) ==
    LET pushed == Append(st.frames, hpcp_frame)
    IN  [frames      |-> IF Len(pushed) > 50 THEN SubSeq(pushed, 1, 50) ELSE pushed,
         frame_count |-> st.frame_count + 1,
         ready       |-> IF st.frame_count + 1 >= 10 THEN TRUE ELSE st.ready]

\* Variant: ready is set one frame late.
add_frame_late(st, hpcp_frame) ==
    LET pushed == Append(st.frames, hpcp_frame)
    IN  [frames      |-> IF Len(pushed) > 50 THEN Tail(pushed) ELSE pushed,
         frame_count |-> st.frame_count + 1,
         ready       |-> IF st.frame_count + 1 > 10 THEN TRUE ELSE st.ready]

\* HpcpState::add_frame
add_frame(st, hpcp_frame) ==
    LET pushed == Append(st.frames, hpcp_frame)
    IN  [frames      |-> IF Len(pushed) > 50 THEN Tail(pushed) ELSE pushed,
         frame_count |-> st.frame_count + 1,
         ready       |-> IF st.frame_count + 1 >= 10 THEN TRUE ELSE st.ready]

\* get_pooled_hpcp, one bin: 0.7 * median + 0.3 * mean of the bin over the frames
PooledBin(frames, bin) ==
    LET n       == Len(frames)
        values  == SubSeq([k \in 1..n |-> frames[k][bin]], 1, n)
        median2 == IF n % 2 = 0
                   THEN SortedAt(values, n \div 2) + SortedAt(values, n \div 2 + 1)
                   ELSE 2 * SortedAt(values, n \div 2 + 1)
    IN  (7 * median2 * n + 6 * SumSeq(values) + 10 * n) \div (20 * n)

\* Variant: the final normalization of the pooled vector is left out.
get_pooled_hpcp_raw(st) ==
    IF ~st.ready \/ st.frames = <<>> THEN ZeroVector
    ELSE [bin \in 1..12 |-> PooledBin(st.frames, bin)]

\* Variant: the frames are pooled whether or not the state is ready.
get_pooled_hpcp_eager(st) ==
    IF st.frames = <<>> THEN ZeroVector
    ELSE normalize_vector([bin \in 1..12 |-> PooledBin(st.frames, bin)])

\* HpcpState::get_pooled_hpcp
get_pooled_hpcp(st) ==
    IF ~st.ready \/ st.frames = <<>> THEN ZeroVector
    ELSE normalize_vector([bin \in 1..12 |-> PooledBin(st.frames, bin)])

(* The buffers given to extract_advanced.  What the spectral stages (window, *)
(* DFT, whitening, peak picking: chroma.rs 99-124) make of a window is part  *)
(* of the buffer's description: window number k of the buffer is of the      *)
(* kind motif[k mod Len(motif)], and a kind is either quiet (windowed         *)
(* energy below 1e-6) or the list of (frequency, magnitude) peaks picked in  *)
(* the band 65.4 .. 2093 Hz, strongest first, possibly empty.  `tuning` is   *)
(* the offset detect_tuning_offset finds for the buffer.                     *)

\* no spectral peak inside the band, e.g. a 5 kHz sine
NoPeaks == [quiet |-> FALSE, peaks |-> <<>>]

\* windowed energy below 1e-6
Quiet == [quiet |-> TRUE, peaks |-> <<>>]

\* ChromaExtractor.sample_rate, in Hz
sample_rate == 44100

\* the bin of the 4096-point spectrum nearest to a frequency
PeakBin(freq) == (2 * freq * FFT_SIZE + sample_rate * 100) \div (2 * sample_rate * 100)

\* pick_spectral_peaks, line 243: the frequency reported for bin i
BinFreq(i) == (i * sample_rate * 100) \div FFT_SIZE

\* the peak picked for a partial of frequency freq: it sits on a bin
SinePeak(freq, magnitude) == <<BinFreq(PeakBin(freq)), magnitude>>

\* a sine at 440 Hz
SineA4 == [quiet |-> FALSE, peaks |-> << SinePeak(44000, 800) >>]

\* a sine at 466.16 Hz
SineASharp4 == [quiet |-> FALSE, peaks |-> << SinePeak(46616, 800) >>]

\* the partials C4, G4, E4
ChordC == [quiet |-> FALSE,
           peaks |-> << SinePeak(26163, 900), SinePeak(39200, 700), SinePeak(32963, 500) >>]

WindowKinds == {Quiet, NoPeaks, SineA4, SineASharp4, ChordC}

KindMotifs ==
    {<<k>> : k \in WindowKinds} \cup
    {<<NoPeaks, SineA4>>, <<SineA4, NoPeaks>>, <<Quiet, SineA4>>, <<SineA4, ChordC>>,
     <<NoPeaks, Quiet>>, <<SineA4, SineASharp4>>}

\* detect_tuning_offset on a pure sine at 440 Hz or 466.16 Hz: the leakage of
\* the unwindowed 2048-point DFT scores highest at +40 cents
SineTuning == 40

TuningOffsets == {-50, 0, SineTuning, 50}

\* compute_hpcp_frame (chroma.rs 127) on the peaks of each kind of window, for
\* each tuning offset
HpcpFrameOf ==
    [kind \in WindowKinds, tuning_offset \in TuningOffsets |->
        compute_hpcp_frame(kind.peaks, tuning_offset)]

\* buffer lengths in samples: below one window, 1, 2, 9, 10, 11, 29, 60, 100 and
\* 130 windows, and more than MAX_ANALYSIS_SAMPLES
WindowCounts == {1, 2, 9, 10, 11, 29, 60, 100, 130}

ExtractLens ==
    {0, FFT_SIZE - 1, MAX_ANALYSIS_SAMPLES + 5000} \cup
    {FFT_SIZE + (w - 1) * HOP_SIZE : w \in WindowCounts} \cup
    {FFT_SIZE + 9 * HOP_SIZE - 1}

ExtractBuffers ==
    {[len |-> n, motif |-> m, tuning |-> t] :
        n \in ExtractLens, m \in KindMotifs, t \in TuningOffsets}

\* What the spectral stages find in the window starting at window_start
WindowKind(p, window_start) ==
    p.motif[((window_start \div HOP_SIZE) % Len(p.motif)) + 1]

NoExtract == [stage |-> "none"]

ExtractInit ==
    /\ xpcm = [len |-> 0, motif |-> <<Quiet>>, tuning |-> 0]
    /\ xpc = "idle"
    /\ ext = NoExtract
    /\ xout = ZeroVector

\* The host hands the extractor a buffer.
ExtractNewBuffer ==
    /\ xpc = "idle"
    /\ xpcm.len = 0
    /\ xpcm' \in ExtractBuffers
    /\ UNCHANGED <<xpc, ext, xout>>

\* extract_advanced, lines 85-92: fresh state, tuning offset, sample limit
ExtractStart ==
    /\ xpc = "idle"
    /\ ext' = [stage         |-> "loop",
               hpcp_state    |-> HpcpNew,
               tuning_offset |-> xpcm.tuning,
               max_samples   |-> Min2(MAX_ANALYSIS_SAMPLES, xpcm.len),
               frame_count   |-> 0,
               window_start  |-> 0]
    /\ xpc' = "loop"
    /\ UNCHANGED <<xpcm, xout>>

\* Variant: the window loop without the limit of 100 frames.
ExtractWindow_no_cap ==
    /\ xpc = "loop"
    /\ IF \/ ext.window_start >= ext.max_samples
          \/ ext.window_start + FFT_SIZE > ext.max_samples
       THEN /\ xpc' = "pool"
            /\ ext' = ext
       ELSE /\ xpc' = "loop"
            /\ LET kind == WindowKind(xpcm, ext.window_start)
               IN  IF kind.quiet
                   THEN ext' = [ext EXCEPT !.window_start = @ + HOP_SIZE]
                   ELSE ext' = [ext EXCEPT
                                  !.hpcp_state = add_frame(@,
                                      HpcpFrameOf[kind, ext.tuning_offset]),
                                  !.frame_count = @ + 1,
                                  !.window_start = @ + HOP_SIZE]
    /\ UNCHANGED <<xpcm, xout>>

\* extract_advanced, lines 95-132: one pass of the window loop
ExtractWindow ==
    /\ xpc = "loop"
    /\ IF \/ ext.window_start >= ext.max_samples
          \/ ext.window_start + FFT_SIZE > ext.max_samples
          \/ ext.frame_count >= 100
       THEN /\ xpc' = "pool"
            /\ ext' = ext
       ELSE /\ xpc' = "loop"
            /\ LET kind == WindowKind(xpcm, ext.window_start)
               IN  IF kind.quiet
                   THEN ext' = [ext EXCEPT !.window_start = @ + HOP_SIZE]
                   ELSE ext' = [ext EXCEPT
                                  !.hpcp_state = add_frame(@,
                                      HpcpFrameOf[kind, ext.tuning_offset]),
                                  !.frame_count = @ + 1,
                                  !.window_start = @ + HOP_SIZE]
    /\ UNCHANGED <<xpcm, xout>>

\* extract_advanced, lines 134-135: the pooled profile is returned
ExtractPool ==
    /\ xpc = "pool"
    /\ xout' = get_pooled_hpcp(ext.hpcp_state)
    /\ xpc' = "done"
    /\ UNCHANGED <<xpcm, ext>>

\* The host drops the buffer and the vector of a finished call.
ExtractDiscard ==
    /\ xpc = "done"
    /\ xpcm' = [len |-> 0, motif |-> <<Quiet>>, tuning |-> 0]
    /\ xpc' = "idle"
    /\ ext' = NoExtract
    /\ xout' = ZeroVector

ExtractNext ==
    \/ ExtractNewBuffer
    \/ ExtractStart
    \/ ExtractWindow
    \/ ExtractPool
    \/ ExtractDiscard

-----------------------------------------------------------------------------
(* Key detection and scale matching, music/keydetection.rs,                 *)
(* music/scale_analysis.rs and utils.rs.  Chroma values are in thousandths, *)
(* correlations, confidences and agreement factors in thousandths, scale    *)
(* strengths in millionths.  A key profile is held in the unit that makes   *)
(* its entries integers; a correlation does not depend on that unit.        *)

NOTE_NAMES == <<"C", "C#", "D", "D#", "E", "F", "F#", "G", "G#", "A", "A#", "B">>

EDMA_MAJOR == <<194, 0, 108, 0, 151, 114, 0, 180, 0, 142, 0, 111>>

EDMA_MINOR == <<192, 0, 110, 162, 0, 118, 0, 175, 142, 0, 101, 0>>

KS_MAJOR == <<635, 223, 348, 233, 438, 409, 252, 519, 239, 366, 229, 288>>

KS_MINOR == <<633, 268, 352, 538, 260, 353, 254, 475, 398, 269, 334, 317>>

TEMPERLEY_MAJOR == <<50, 20, 35, 20, 45, 40, 20, 45, 20, 35, 15, 40>>

TEMPERLEY_MINOR == <<50, 20, 35, 45, 20, 40, 20, 45, 35, 20, 15, 40>>

SHAATH_MAJOR == <<66, 20, 35, 23, 46, 40, 25, 52, 24, 37, 23, 29>>

SHAATH_MINOR == <<65, 27, 35, 54, 26, 35, 25, 47, 40, 27, 34, 32>>

HYBRID_MAJOR == <<251, 0, 108, 0, 191, 108, 0, 234, 0, 108, 0, 0>>

HYBRID_MINOR == <<244, 0, 108, 186, 0, 119, 0, 230, 114, 0, 0, 0>>

\* detect_key: the profile sets in the order they are tested, weights in hundredths
ProfileSets ==
    << [major |-> EDMA_MAJOR,      minor |-> EDMA_MINOR,      weight |-> 35],
       [major |-> HYBRID_MAJOR,    minor |-> HYBRID_MINOR,    weight |-> 25],
       [major |-> KS_MAJOR,        minor |-> KS_MINOR,        weight |-> 20],
       [major |-> TEMPERLEY_MAJOR, minor |-> TEMPERLEY_MINOR, weight |-> 15],
       [major |-> SHAATH_MAJOR,    minor |-> SHAATH_MINOR,    weight |-> 5] >>

\* sum over i in 0..11 of f[i]
Sum12(f) ==
    f[0] + f[1] + f[2] + f[3] + f[4] + f[5] + f[6] + f[7] + f[8] + f[9] + f[10] + f[11]

-----------------------------------------------------------------------------
(* IEEE 754 binary32 arithmetic, round to nearest even.  A value is        *)
(* s * m * 2^e with s = 1 or -1 and m = 0 or 2^23 <= m < 2^24.  Exponents   *)
(* are not bounded: no value of the key detector leaves the normal range.   *)

F32Zero == [s |-> 1, m |-> 0, e |-> 0]

\* The binary32 nearest to s * M * 2^e for 0 <= M < 2^31.  The last bit of M
\* may stand for bits below it that are not all 0 when M has 26 bits or more.
F32Round(s, M, e) ==
    IF M = 0 THEN F32Zero
    ELSE LET n == FloorLog2(M) + 1
         IN  IF n <= 24
             THEN [s |-> s, m |-> M * Pow2(24 - n), e |-> e - (24 - n)]
             ELSE LET unit == Pow2(n - 24)
                      q    == M \div unit
                      r    == M % unit
                      q2   == IF 2 * r > unit \/ (2 * r = unit /\ q % 2 = 1)
                              THEN q + 1 ELSE q
                  IN  IF q2 = 16777216
                      THEN [s |-> s, m |-> 8388608, e |-> e + (n - 24) + 1]
                      ELSE [s |-> s, m |-> q2, e |-> e + (n - 24)]

\* an integer -2^24 < n < 2^24 as a binary32
F32FromInt(n) == F32Round(IF n < 0 THEN -1 ELSE 1, IF n < 0 THEN -n ELSE n, 0)

F32Neg(a) == IF a.m = 0 THEN a ELSE [a EXCEPT !.s = -a.s]

\* M / 2^k with the last bit set when the division leaves a remainder
ShiftRightJam(M, k) ==
    IF k >= 31 THEN (IF M = 0 THEN 0 ELSE 1)
    ELSE LET q == M \div Pow2(k)
         IN  IF M % Pow2(k) # 0 /\ q % 2 = 0 THEN q + 1 ELSE q

\* a + b for a, b not 0 and a.e >= b.e: both mantissas get six more bits
F32AddAligned(a, b) ==
    LET A == a.s * a.m * 64
        B == b.s * ShiftRightJam(b.m * 64, a.e - b.e)
        S == A + B
    IN  F32Round(IF S < 0 THEN -1 ELSE 1, IF S < 0 THEN -S ELSE S, a.e - 6)

F32AddOf(a, b) ==
    IF a.m = 0 THEN b
    ELSE IF b.m = 0 THEN a
    ELSE IF a.e >= b.e THEN F32AddAligned(a, b)
    ELSE F32AddAligned(b, a)

F32Add(a, b) == CHOOSE r \in {F32AddOf(x, y) : x \in {a}, y \in {b}} : TRUE

F32Sub(a, b) == CHOOSE r \in {F32AddOf(x, F32Neg(y)) : x \in {a}, y \in {b}} : TRUE

\* a * b: the 48 bits of the product of the mantissas in two halves of 24
F32MulOf(a, b) ==
    IF a.m = 0 \/ b.m = 0 THEN F32Zero
    ELSE LET a1   == a.m \div 4096
             a0   == a.m % 4096
             b1   == b.m \div 4096
             b0   == b.m % 4096
             mid  == a1 * b0 + a0 * b1
             low  == (mid % 4096) * 4096 + a0 * b0
             high == a1 * b1 + mid \div 4096 + low \div 16777216
             L    == low % 16777216
             M    == high * 64 + L \div 262144
         IN  F32Round(a.s * b.s,
                      IF L % 262144 # 0 /\ M % 2 = 0 THEN M + 1 ELSE M,
                      a.e + b.e + 18)

F32Mul(a, b) == CHOOSE r \in {F32MulOf(x, y) : x \in {a}, y \in {b}} : TRUE

\* the long division of a remainder r < d by d < 2^24: `digits` more digits of
\* six bits after the quotient q
RECURSIVE LongDivide(_, _, _, _)
LongDivide(q, r, d, digits) ==
    IF digits = 0 THEN [q |-> q, r |-> r]
    ELSE LongDivide(64 * q + (64 * r) \div d, (64 * r) % d, d, digits - 1)

\* a / b for b not 0: 24 bits of quotient after the binary point and three more
F32DivOf(a, b) ==
    IF a.m = 0 THEN F32Zero
    ELSE LET h == LongDivide(a.m \div b.m, a.m % b.m, b.m, 4)
             M == 8 * h.q + (8 * h.r) \div b.m
             r == (8 * h.r) % b.m
         IN  F32Round(a.s * b.s, IF r # 0 /\ M % 2 = 0 THEN M + 1 ELSE M,
                      a.e - b.e - 27)

F32Div(a, b) == CHOOSE r \in {F32DivOf(x, y) : x \in {a}, y \in {b}} : TRUE

\* the square root digit by digit: root and rem are the root and the remainder
\* so far, two more zero bits of the radicand are taken at each step
RECURSIVE SqrtDigits(_, _, _)
SqrtDigits(root, rem, steps) ==
    IF steps = 0 THEN [root |-> root, rem |-> rem]
    ELSE IF 4 * rem >= 4 * root + 1
         THEN SqrtDigits(2 * root + 1, 4 * rem - (4 * root + 1), steps - 1)
         ELSE SqrtDigits(2 * root, 4 * rem, steps - 1)

\* sqrt(a) for a >= 0
F32SqrtOf(a) ==
    IF a.m = 0 THEN F32Zero
    ELSE LET odd == a.e % 2 # 0
             N   == IF odd THEN 2 * a.m ELSE a.m
             e   == IF odd THEN a.e - 1 ELSE a.e
             r0  == ISqrt(N)
             h   == SqrtDigits(r0, N - r0 * r0, 14)
         IN  F32Round(1, IF h.rem # 0 THEN 2 * h.root + 1 ELSE 2 * h.root,
                      (e \div 2) - 15)

F32Sqrt(a) == CHOOSE r \in {F32SqrtOf(x) : x \in {a}} : TRUE

\* a > b
F32Gt(a, b) ==
    \E d \in {F32AddOf(x, F32Neg(y)) : x \in {a}, y \in {b}} : d.m # 0 /\ d.s = 1

F32Max(a, b) == IF F32Gt(b, a) THEN b ELSE a

F32Min(a, b) == IF F32Gt(a, b) THEN b ELSE a

-----------------------------------------------------------------------------
(* calculate_enhanced_correlation in binary32.  Fixed point cannot tell the  *)
(* correlations of a flat chroma from 0: every centred value is 0 there.  In  *)
(* binary32 the mean of twelve equal values need not be the value, and the    *)
(* centred values are then the rounding error of the mean.                    *)

\* The tables of constants.rs are written with three, two or one decimals;
\* the model keeps their entries as integers in these units.
ProfileUnit(key_profile) ==
    IF key_profile \in {EDMA_MAJOR, EDMA_MINOR, HYBRID_MAJOR, HYBRID_MINOR} THEN 1000
    ELSE IF key_profile \in {KS_MAJOR, KS_MINOR} THEN 100
    ELSE 10

\* the f32 literal n / unit
F32Literal(n, unit) == F32Div(F32FromInt(n), F32FromInt(unit))

\* a vector of integers in units of 1 / unit as a vector of f32
F32Vector(v, unit) == SubSeq([i \in 1..12 |-> F32Literal(v[i], unit)], 1, 12)

\* iter().sum::<f32>(): the elements from the k-th on added to acc in order
RECURSIVE F32SumFrom(_, _, _)
F32SumFrom(v, k, acc) ==
    IF k > Len(v) THEN acc ELSE F32SumFrom(v, k + 1, F32Add(acc, v[k]))

\* iter().sum::<f32>() / len() as f32, lines 22-23
F32Mean(v) == F32Div(F32SumFrom(v, 1, F32Zero), F32FromInt(12))

\* one pass of the loop of lines 29-37
CorrelationStep(acc, chroma_centered, profile_centered) ==
    [numerator        |-> F32Add(acc.numerator, F32Mul(chroma_centered, profile_centered)),
     chroma_variance  |-> F32Add(acc.chroma_variance,
                                 F32Mul(chroma_centered, chroma_centered)),
     profile_variance |-> F32Add(acc.profile_variance,
                                 F32Mul(profile_centered, profile_centered))]

\* the loop of lines 29-37 from pass i on
RECURSIVE CorrelationLoop(_, _, _, _, _, _, _)
CorrelationLoop(chroma_f, chroma_mean, profile_f, profile_mean, root, i, acc) ==
    IF i = 12 THEN acc
    ELSE CorrelationLoop(chroma_f, chroma_mean, profile_f, profile_mean, root, i + 1,
             CHOOSE next \in
                 {CorrelationStep(a, chroma_centered, profile_centered) :
                     a \in {acc},
                     chroma_centered \in {F32Sub(chroma_f[((i + root) % 12) + 1], chroma_mean)},
                     profile_centered \in {F32Sub(profile_f[i + 1], profile_mean)}} : TRUE)

\* the f32 literal 1e-8 of line 41
F32_1E8 == F32Div(F32FromInt(1), F32FromInt(100000000))

\* lines 39-45, from the three sums of the loop
CorrelationOf(sums) ==
    CHOOSE correlation \in
        {IF F32Gt(denominator, F32_1E8)
         THEN F32Min(F32Max(F32Div(sums.numerator, denominator), F32FromInt(-1)),
                     F32FromInt(1))
         ELSE F32Zero :
            denominator \in {F32Sqrt(F32Mul(sums.chroma_variance, sums.profile_variance))}} :
        TRUE

\* lines 25-45, from the two means
CorrelationFromMeans(chroma_f, chroma_mean, profile_f, profile_mean, root) ==
    CHOOSE correlation \in
        {CorrelationOf(sums) :
            sums \in {CorrelationLoop(chroma_f, chroma_mean, profile_f, profile_mean, root, 0,
                          [numerator |-> F32Zero, chroma_variance |-> F32Zero,
                           profile_variance |-> F32Zero])}} : TRUE

\* utils.rs calculate_enhanced_correlation on vectors of f32
calculate_enhanced_correlation_f32(chroma_f, profile_f, root) ==
    CHOOSE correlation \in
        {CorrelationFromMeans(chroma_f, chroma_mean, profile_f, profile_mean, root) :
            chroma_mean \in {F32Mean(chroma_f)}, profile_mean \in {F32Mean(profile_f)}} : TRUE

-----------------------------------------------------------------------------
(* Key detection in fixed point, for a chroma that is not flat *)

\* utils.rs calculate_enhanced_correlation.  The centred values are kept
\* twelve times their size, which leaves the quotient as it is.  The test
\* `denominator > 1e-8` is `denominator > 0` here: the profile variance is
\* never 0, and a chroma variance that is not 0 is at least 1e-6.
calculate_enhanced_correlation(chroma_v, key_profile, root) ==
    LET chroma_sum   == SumSeq(chroma_v)
        profile_sum  == SumSeq(key_profile)
        chroma_centered  == [i \in 0..11 |-> 12 * chroma_v[((i + root) % 12) + 1] - chroma_sum]
        profile_centered == [i \in 0..11 |-> 12 * key_profile[i + 1] - profile_sum]
        numerator        == Sum12([i \in 0..11 |-> chroma_centered[i] * profile_centered[i]])
        chroma_variance  == Sum12([i \in 0..11 |-> chroma_centered[i] * chroma_centered[i]])
        profile_variance == Sum12([i \in 0..11 |-> profile_centered[i] * profile_centered[i]])
        denominator      == ISqrt(chroma_variance) * ISqrt(profile_variance)
    IN  IF denominator > 0
        THEN LET quotient == IF numerator >= 0 THEN MulDiv(numerator, 1000, denominator)
                             ELSE -MulDiv(-numerator, 1000, denominator)
             IN  Min2(Max2(quotient, -1000), 1000)
        ELSE 0

\* test_profile_set, the loop: step 2*root tests the major key on root,
\* step 2*root + 1 the minor key; the correlations of the 24 steps
StepCorrelations(chroma_v, major_profile, minor_profile) ==
    SubSeq([n \in 1..24 |->
               calculate_enhanced_correlation(
                   chroma_v, IF n % 2 = 1 THEN major_profile ELSE minor_profile,
                   (n - 1) \div 2)],
           1, 24)

\* test_profile_set, `if corr > best_correlation`: the loop keeps the first of
\* the steps with the greatest correlation; best_correlation starts at -1.0
\* with root 0 and major, which is also what step 0 tests
TestFold(corrs) ==
    LET n == CHOOSE k \in 1..24 : \A j \in 1..24 : /\ corrs[j] <= corrs[k]
                                                   /\ j < k => corrs[j] < corrs[k]
    IN  [correlation |-> Max2(corrs[n], -1000),
         root        |-> (n - 1) \div 2,
         is_major    |-> n % 2 = 1]

\* test_profile_set on a chroma that is not flat: correlations in thousandths
BestOfChroma(chroma_v, major_profile, minor_profile) ==
    LET best == TestFold(StepCorrelations(chroma_v, major_profile, minor_profile))
    IN  [root       |-> best.root,
         is_major   |-> best.is_major,
         confidence |-> Min2(Max2((best.correlation + 1000) \div 2, 0), 1000)]

\* all twelve bins of the chroma hold one value
IsFlat(chroma_v) == \A i \in 1..12 : chroma_v[i] = chroma_v[1]

\* the levels of the flat chroma vectors of the model, in thousandths
FlatLevels == {0, 83, 100, 300, 1000}

KeyProfiles ==
    {EDMA_MAJOR, EDMA_MINOR, HYBRID_MAJOR, HYBRID_MINOR, KS_MAJOR, KS_MINOR,
     TEMPERLEY_MAJOR, TEMPERLEY_MINOR, SHAATH_MAJOR, SHAATH_MINOR}

\* calculate_enhanced_correlation of a chroma of twelve times `level` with a
\* profile at `root`
FlatCorrelationAt(level, key_profile, root) ==
    CHOOSE correlation \in
        {calculate_enhanced_correlation_f32(chroma_f, profile_f, root) :
            chroma_f  \in {F32Vector([i \in 1..12 |-> level], 1000)},
            profile_f \in {F32Vector(key_profile, ProfileUnit(key_profile))}} : TRUE

\* The correlations of the flat chroma vectors of the model.  The loop reads
\* chroma[(i + root) % 12], which for a flat chroma is the same value at every
\* root: the correlation at root 0 is the correlation at every root.
FlatCorrelation ==
    [level \in FlatLevels, key_profile \in KeyProfiles |->
        FlatCorrelationAt(level, key_profile, 0)]

\* test_profile_set on a flat chroma: the correlations of the 24 steps
FlatStepCorrelations(chroma_v, major_profile, minor_profile) ==
    SubSeq([n \in 1..24 |->
               IF chroma_v[1] \in FlatLevels
               THEN FlatCorrelation[chroma_v[1],
                                    IF n % 2 = 1 THEN major_profile ELSE minor_profile]
               ELSE FlatCorrelationAt(chroma_v[1],
                                      IF n % 2 = 1 THEN major_profile ELSE minor_profile,
                                      (n - 1) \div 2)],
           1, 24)

\* test_profile_set, lines 52-68, from step n on: best is replaced when
\* `corr > best_correlation`
RECURSIVE F32TestFold(_, _, _)
F32TestFold(corrs, n, best) ==
    IF n > 24 THEN best
    ELSE F32TestFold(corrs, n + 1,
             CHOOSE next \in
                 {IF F32Gt(corr, b.correlation)
                  THEN [correlation |-> corr, root |-> (n - 1) \div 2, is_major |-> n % 2 = 1]
                  ELSE b : b \in {best}, corr \in {corrs[n]}} : TRUE)

\* a binary32 in [0, 1] in thousandths, to the nearest
F32Thousandths(a) ==
    IF a.m = 0 \/ a.e < -30 THEN 0 ELSE MulDivRound(a.m, 1000, Pow2(-a.e))

\* test_profile_set, line 72: ((best_correlation + 1.0) / 2.0).max(0.0).min(1.0)
F32Confidence(best_correlation) ==
    F32Min(F32Max(F32Div(F32Add(best_correlation, F32FromInt(1)), F32FromInt(2)),
                  F32Zero),
           F32FromInt(1))

\* test_profile_set on a flat chroma: correlations in binary32
BestOfFlatChroma(chroma_v, major_profile, minor_profile) ==
    CHOOSE winner \in
        {[root       |-> best.root,
          is_major   |-> best.is_major,
          confidence |-> F32Thousandths(F32Confidence(best.correlation))] :
            best \in {F32TestFold(corrs, 1, [correlation |-> F32FromInt(-1),
                                             root |-> 0, is_major |-> TRUE]) :
                         corrs \in {FlatStepCorrelations(chroma_v, major_profile,
                                                         minor_profile)}}} : TRUE

\* KeyDetector::test_profile_set
test_profile_set(chroma_v, major_profile, minor_profile) ==
    IF IsFlat(chroma_v)
    THEN BestOfFlatChroma(chroma_v, major_profile, minor_profile)
    ELSE BestOfChroma(chroma_v, major_profile, minor_profile)

\* detect_key, lines 15-35: one result and one weight for each profile set
ProfileResults(chroma_v) ==
    [k \in 1..Len(ProfileSets) |->
        [result |-> test_profile_set(chroma_v, ProfileSets[k].major, ProfileSets[k].minor),
         weight |-> ProfileSets[k].weight]]

\* Variant: a vote is the confidence alone, the family weight is left out.
KeyVotes_unweighted(results) ==
    [key_idx \in 0..23 |->
        LET strength == [k \in 1..Len(results) |->
                IF key_idx = (IF results[k].result.is_major THEN results[k].result.root
                              ELSE results[k].result.root + 12)
                THEN results[k].result.confidence * 20
                ELSE 0]
        IN  SumSeq(strength)]

\* calculate_weighted_consensus, lines 79-87: the votes of the 24 keys
KeyVotes(results) ==
    [key_idx \in 0..23 |->
        LET strength == [k \in 1..Len(results) |->
                IF key_idx = (IF results[k].result.is_major THEN results[k].result.root
                              ELSE results[k].result.root + 12)
                THEN results[k].result.confidence * results[k].weight
                ELSE 0]
        IN  SumSeq(strength)]

\* Variant: of several greatest elements the first one.
LastMaxIndex_first(key_votes) ==
    CHOOSE i \in 0..23 :
        \A j \in 0..23 : /\ key_votes[j] <= key_votes[i]
                         /\ j < i => key_votes[j] < key_votes[i]

\* Iterator::max_by: of several greatest elements the last one
LastMaxIndex(key_votes) ==
    CHOOSE i \in 0..23 :
        \A j \in 0..23 : /\ key_votes[j] <= key_votes[i]
                         /\ j > i => key_votes[j] < key_votes[i]

\* calculate_weighted_consensus, line 96
ConsensusRoot(best_idx) == best_idx % 12

calculate_weighted_consensus(results) ==
    LET key_votes    == KeyVotes(results)
        total_weight == Sum12([i \in 0..11 |-> key_votes[i] + key_votes[i + 12]])
        best_idx     == LastMaxIndex(key_votes)
    IN  [root       |-> ConsensusRoot(best_idx),
         is_major   |-> best_idx < 12,
         confidence |-> IF total_weight > 0
                        THEN (key_votes[best_idx] * 1000) \div total_weight
                        ELSE 0]

\* calculate_profile_agreement, lines 119-129: the agreement of two results
Agreement(r1, r2) ==
    IF r1.root = r2.root /\ r1.is_major = r2.is_major THEN 1000
    ELSE IF r1.root = r2.root THEN 700
    ELSE IF (r1.root + 3) % 12 = r2.root \/ (r2.root + 3) % 12 = r1.root THEN 600
    ELSE IF (r1.root + 7) % 12 = r2.root \/ (r2.root + 7) % 12 = r1.root THEN 400
    ELSE 0

\* calculate_profile_agreement, lines 116-133: one pair of results, its
\* agreement weighted by the geometric mean of the two confidences
PairAgreement(r1, r2) ==
    LET weight == ISqrt(r1.confidence * r2.confidence)
    IN  (Agreement(r1, r2) * weight) \div 1000

\* calculate_profile_agreement, the loops over i and j > i
RECURSIVE SumAgreement(_, _, _)
SumAgreement(results, i, j) ==
    IF i > Len(results) THEN 0
    ELSE IF j > Len(results) THEN SumAgreement(results, i + 1, i + 2)
    ELSE PairAgreement(results[i].result, results[j].result)
         + SumAgreement(results, i, j + 1)

\* Variant: the average is returned without the floor of 0.3.
calculate_profile_agreement_nofloor(results) ==
    IF Len(results) < 2 THEN 1000
    ELSE LET pair_count == (Len(results) * (Len(results) - 1)) \div 2
         IN  SumAgreement(results, 1, 2) \div pair_count

calculate_profile_agreement(results) ==
    IF Len(results) < 2 THEN 1000
    ELSE LET pair_count == (Len(results) * (Len(results) - 1)) \div 2
         IN  Max2(SumAgreement(results, 1, 2) \div pair_count, 300)

\* Variant: the confidence is returned without its limits.
FinalConfidence_unlimited(consensus_confidence, agreement_factor) ==
    (consensus_confidence * agreement_factor) \div 1000

\* detect_key, line 42
FinalConfidence(consensus_confidence, agreement_factor) ==
    Min2(Max2((consensus_confidence * agreement_factor) \div 1000, 50), 950)

\* calculate_profile_agreement, lines 114-129: `agreement` of each pass of the
\* inner loop, by the pair (i, j) of the pass, i and j counted from 1
Agreements(results) ==
    [pair \in {<<i, j>> : i \in 1..Len(results), j \in 1..Len(results)} |->
        IF pair[1] < pair[2]
        THEN Agreement(results[pair[1]].result, results[pair[2]].result)
        ELSE 0]

\* detect_key, lines 37-44: the key from the results of the profile sets,
\* with the locals
KeyFromResults(profile_results) ==
    LET consensus        == calculate_weighted_consensus(profile_results)
        agreement_factor == calculate_profile_agreement(profile_results)
    IN  [root             |-> consensus.root,
         is_major         |-> consensus.is_major,
         confidence       |-> FinalConfidence(consensus.confidence, agreement_factor),
         profile_results  |-> profile_results,
         consensus        |-> consensus,
         agreements       |-> Agreements(profile_results),
         agreement_factor |-> agreement_factor]

\* KeyDetector::detect_key, with its locals
detect_key(chroma_v) ==
    CHOOSE key \in {KeyFromResults(profile_results) :
                       profile_results \in {ProfileResults(chroma_v)}} : TRUE

\* SCALE_PATTERNS[0], [1], [2], [4], [6], [7], [10], [11], [12]: the patterns
\* analyze_scales tests, in its order
common_patterns ==
    << [pattern |-> {0, 2, 4, 5, 7, 9, 11}, name |-> "Major"],
       [pattern |-> {0, 2, 3, 5, 7, 8, 10}, name |-> "Natural Minor"],
       [pattern |-> {0, 2, 3, 5, 7, 8, 11}, name |-> "Harmonic Minor"],
       [pattern |-> {0, 2, 3, 5, 7, 9, 10}, name |-> "Dorian"],
       [pattern |-> {0, 2, 4, 6, 7, 9, 11}, name |-> "Lydian"],
       [pattern |-> {0, 2, 4, 5, 7, 9, 10}, name |-> "Mixolydian"],
       [pattern |-> {0, 2, 4, 7, 9},        name |-> "Pentatonic Major"],
       [pattern |-> {0, 3, 5, 7, 10},       name |-> "Pentatonic Minor"],
       [pattern |-> {0, 3, 5, 6, 7, 10},    name |-> "Blues"] >>

\* `i - root` on usize leaves the type when i < root: a build with overflow
\* checks panics there, a build without them wraps
SubtractOverflows(i, root) == i < root

\* (i - root + 12) % 12 in a build that wraps: the sum wraps back into range
note_interval(i, root) == (IF i >= root THEN i - root + 12 ELSE 12 - (root - i)) % 12

\* calculate_scale_fit_corrected, lines 60-67, in tenths
DegreeWeight(interval) ==
    CASE interval = 0          -> 30
      [] interval \in {3, 4}   -> 20
      [] interval = 7          -> 20
      [] interval \in {2, 9}   -> 15
      [] interval \in {5, 10}  -> 13
      [] OTHER                 -> 10

\* (fit_ratio * penalty).powf(0.8) on millionths; powf(0, 0.8) = 0 and
\* powf(1, 0.8) = 1 exactly
Powf08(x) ==
    IF x = 0 THEN 0
    ELSE IF x >= 1000000 THEN 1000000
    ELSE Exp2Search((4 * Log2Fix(x) + Log2Fix(1000000)) \div 5, 1, 1000000)

\* fit_ratio * penalty, both in millionths and at most 1000000
MulMillionths(a, b) ==
    ((a \div 1000) * b) \div 1000 + ((a % 1000) * b) \div 1000000

\* Variant: the power is taken of the fit ratio alone and the penalty
\* multiplies the result.
calculate_scale_fit_corrected_outside(chroma_v, pattern, root) ==
    LET in_scale_energy  == Sum12([i \in 0..11 |->
                                IF note_interval(i, root) \in pattern
                                THEN chroma_v[i + 1] * DegreeWeight(note_interval(i, root))
                                ELSE 0])
        out_scale_energy == Sum12([i \in 0..11 |->
                                IF note_interval(i, root) \in pattern THEN 0
                                ELSE chroma_v[i + 1] * 2])
        pattern_weights  == Sum12([i \in 0..11 |->
                                IF note_interval(i, root) \in pattern
                                THEN DegreeWeight(note_interval(i, root))
                                ELSE 0])
        out_count        == 12 - Cardinality(pattern)
        in_part          == in_scale_energy * out_count
        out_part         == out_scale_energy * pattern_weights
    IN  IF pattern_weights = 0 THEN 0
        ELSE IF in_part + out_part = 0 THEN 0
        ELSE LET fit_ratio == MulDivRound(in_part, 1000000, in_part + out_part)
                 penalty   == MulDivRound(1000 * out_count, 1000000,
                                          1000 * out_count + 3 * out_scale_energy)
             IN  MulMillionths(Powf08(fit_ratio), penalty)

\* ScaleAnalyzer::calculate_scale_fit_corrected.  in_scale_energy is in
\* ten-thousandths, pattern_weights in tenths, out_scale_energy in thousandths.
calculate_scale_fit_corrected(chroma_v, pattern, root) ==
    LET in_scale_energy  == Sum12([i \in 0..11 |->
                                IF note_interval(i, root) \in pattern
                                THEN chroma_v[i + 1] * DegreeWeight(note_interval(i, root))
                                ELSE 0])
        out_scale_energy == Sum12([i \in 0..11 |->
                                IF note_interval(i, root) \in pattern THEN 0
                                ELSE chroma_v[i + 1] * 2])
        pattern_weights  == Sum12([i \in 0..11 |->
                                IF note_interval(i, root) \in pattern
                                THEN DegreeWeight(note_interval(i, root))
                                ELSE 0])
        out_count        == 12 - Cardinality(pattern)
        \* normalized_in_scale and normalized_out_scale over the common
        \* denominator pattern_weights * out_count
        in_part          == in_scale_energy * out_count
        out_part         == out_scale_energy * pattern_weights
    IN  IF pattern_weights = 0 THEN 0
        ELSE IF in_part + out_part = 0 THEN 0
        ELSE LET fit_ratio == MulDivRound(in_part, 1000000, in_part + out_part)
                 penalty   == MulDivRound(1000 * out_count, 1000000,
                                          1000 * out_count + 3 * out_scale_energy)
             IN  Powf08(MulMillionths(fit_ratio, penalty))

\* analyze_scales, lines 29-37: candidate number k of the 108, k = 1 the first
CandidatePattern(k) == common_patterns[((k - 1) \div 12) + 1]

CandidateRoot(k) == (k - 1) % 12

\* format!("{} {}", NOTE_NAMES[root], name), kept as the pair of its parts
CandidateName(k) == <<NOTE_NAMES[CandidateRoot(k) + 1], CandidatePattern(k).name>>

\* scale_strength of every candidate
ScaleStrengths(chroma_v) ==
    [k \in 1..(12 * Len(common_patterns)) |->
        calculate_scale_fit_corrected(chroma_v, CandidatePattern(k).pattern, CandidateRoot(k))]

\* analyze_scales, line 33
AboveThreshold(scale_strength) == scale_strength > 100000

\* analyze_scales, lines 29-37: the candidates in the order of the loops
Candidates(strengths) ==
    SubSeq([k \in 1..Len(strengths) |->
               [name |-> CandidateName(k), strength |-> strengths[k]]],
           1, Len(strengths))

IsMatch(m) == AboveThreshold(m.strength)

\* analyze_scales, lines 29-37: the matches pushed
PushMatches(strengths) == SelectSeq(Candidates(strengths), IsMatch)

\* Variant: of two matches of one strength the later one comes first.
ComesBefore_reversed(a, i, b, j) ==
    a.strength > b.strength \/ (a.strength = b.strength /\ i > j)

\* The stable sort of line 40: match a, pushed as number i, comes before match
\* b, pushed as number j, if it is stronger, or as strong and pushed earlier.
ComesBefore(a, i, b, j) ==
    a.strength > b.strength \/ (a.strength = b.strength /\ i < j)

\* sort_by(|a, b| b.1.partial_cmp(&a.1)): descending, equal matches keep their order
SortDesc(matches) ==
    LET n     == Len(matches)
        place == SubSeq([i \in 1..n |->
                     1 + Cardinality({j \in 1..n :
                             ComesBefore(matches[j], j, matches[i], i)})],
                        1, n)
    IN  [p \in 1..n |-> matches[CHOOSE i \in 1..n : place[i] = p]]

\* Variant: the list keeps its length.
Truncate_none(matches, n) == matches

\* Vec::truncate
Truncate(matches, n) == SubSeq(matches, 1, Min2(n, Len(matches)))

\* Variant: only the candidates on the detected root are kept.
analyze_scales_on_root(strengths, detected_root) ==
    Truncate(SortDesc(SelectSeq(PushMatches(strengths),
                                LAMBDA m : m.name[1] = NOTE_NAMES[detected_root + 1])), 8)

\* ScaleAnalyzer::analyze_scales on the strengths of the candidates; the
\* parameter _detected_root is not read
analyze_scales(strengths, detected_root) ==
    Truncate(SortDesc(PushMatches(strengths)), 8)

(* The chroma vectors handed to detect_key and analyze_scales. *)

\* energy `level` on the pitch classes root + d, d in degrees, none elsewhere
Template(root, degrees, level) ==
    [i \in 1..12 |-> IF ((i - 1 - root + 12) % 12) \in degrees THEN level ELSE 0]

\* the vector v moved up by root pitch classes
Rotate(v, root) == [i \in 1..12 |-> v[((i - 1 - root + 12) % 12) + 1]]

MajorScale == {0, 2, 4, 5, 7, 9, 11}

ChromaInputs ==
    {Template(0, 0..11, level) : level \in FlatLevels} \cup
    {Template(r, {0}, 1000) : r \in 0..11} \cup
    {Template(r, {0, 4, 7}, 333) : r \in 0..11} \cup
    {Template(r, {0, 3, 7}, 333) : r \in 0..11} \cup
    {Template(0, {0, 2, 8}, 333)} \cup
    {Template(2, {0, 6}, 500)} \cup
    {Template(r, MajorScale, 1000) : r \in 0..11} \cup
    {Template(r, MajorScale, 143) : r \in 0..11} \cup
    {Rotate(p, r) : p \in {EDMA_MAJOR, EDMA_MINOR, HYBRID_MAJOR, KS_MAJOR, KS_MINOR},
                    r \in {0, 2, 7, 9}} \cup
    {<<400, 0, 150, 0, 150, 100, 0, 100, 0, 50, 0, 50>>,
     <<300, 20, 100, 20, 200, 100, 20, 150, 20, 40, 20, 10>>,
     <<0, 0, 0, 0, 0, 0, 1, 0, 0, 0, 0, 0>>}

NoMusic == [stage |-> "none"]

MusicInit ==
    /\ chroma = Template(0, {}, 0)
    /\ mpc = "idle"
    /\ mus = NoMusic

\* analyze_music is called; the extractor has produced the chroma vector
MusicNewChroma ==
    /\ mpc = "idle"
    /\ chroma' \in ChromaInputs
    /\ mpc' = "key"
    /\ mus' = NoMusic
    /\ UNCHANGED overflow_checks

\* Variant: the key is detected only while S-KEY is enabled.
DetectKey_skey ==
    /\ mpc = "key"
    /\ mus' = [stage |-> "key",
               key |-> detect_key(IF skey_enabled THEN chroma ELSE Template(0, {}, 0))]
    /\ mpc' = "scales"
    /\ UNCHANGED <<chroma, overflow_checks>>

\* analyze_music, line 98
DetectKey ==
    /\ mpc = "key"
    /\ mus' = [stage |-> "key", key |-> detect_key(chroma)]
    /\ mpc' = "scales"
    /\ UNCHANGED <<chroma, overflow_checks>>

\* analyze_music, line 102
AnalyzeScales ==
    /\ mpc = "scales"
    /\ IF overflow_checks /\ \E root \in 0..11, i \in 0..11 : SubtractOverflows(i, root)
       THEN /\ mpc' = "panicked"
            /\ mus' = mus
       ELSE LET strengths == ScaleStrengths(chroma)
            IN  /\ mpc' = "done"
                /\ mus' = [stage         |-> "scales",
                           key           |-> mus.key,
                           strengths     |-> strengths,
                           scale_matches |-> analyze_scales(strengths, mus.key.root)]
    /\ UNCHANGED <<chroma, overflow_checks>>

\* The result is taken, or the trap is seen, and the call is over.
MusicDiscard ==
    /\ mpc \in {"done", "panicked"}
    /\ chroma' = Template(0, {}, 0)
    /\ mpc' = "idle"
    /\ mus' = NoMusic
    /\ UNCHANGED overflow_checks

-----------------------------------------------------------------------------
(* The vote of detect_key on its own: calculate_weighted_consensus and      *)
(* calculate_profile_agreement take the list of the five family results,    *)
(* whatever chroma they came from.                                          *)

\* (root, is_major, confidence) triples a family can return
VoteRoots == {0, 3, 7, 9}

VoteConfidences == {0, 500, 1000}

ResultChoices ==
    {[root |-> r, is_major |-> m, confidence |-> c] :
        r \in VoteRoots, m \in BOOLEAN, c \in VoteConfidences}

\* the results of the last three families
LastThree ==
    { << [root |-> 0, is_major |-> TRUE,  confidence |-> 0],
         [root |-> 0, is_major |-> TRUE,  confidence |-> 0],
         [root |-> 0, is_major |-> TRUE,  confidence |-> 0] >>,
      << [root |-> 0, is_major |-> TRUE,  confidence |-> 500],
         [root |-> 0, is_major |-> TRUE,  confidence |-> 500],
         [root |-> 0, is_major |-> TRUE,  confidence |-> 500] >>,
      << [root |-> 3, is_major |-> FALSE, confidence |-> 1000],
         [root |-> 3, is_major |-> FALSE, confidence |-> 1000],
         [root |-> 7, is_major |-> TRUE,  confidence |-> 1000] >>,
      << [root |-> 9, is_major |-> FALSE, confidence |-> 1000],
         [root |-> 9, is_major |-> FALSE, confidence |-> 500],
         [root |-> 0, is_major |-> TRUE,  confidence |-> 1000] >>,
      << [root |-> 7, is_major |-> TRUE,  confidence |-> 1000],
         [root |-> 3, is_major |-> TRUE,  confidence |-> 1000],
         [root |-> 0, is_major |-> FALSE, confidence |-> 500] >> }

\* detect_key, lines 19-35: a result paired with the weight of its family
WithWeights(triples) ==
    [k \in 1..Len(ProfileSets) |-> [result |-> triples[k], weight |-> ProfileSets[k].weight]]

VoteInputs ==
    {WithWeights(<<a, b>> \o rest) : a \in ResultChoices, b \in ResultChoices, rest \in LastThree}

\* The five family results are at hand.
VoteNewResults ==
    /\ mpc = "idle"
    /\ \E profile_results \in VoteInputs :
           mus' = [stage |-> "results", profile_results |-> profile_results]
    /\ mpc' = "vote"
    /\ UNCHANGED <<chroma, overflow_checks>>

\* detect_key, lines 37-44
Vote ==
    /\ mpc = "vote"
    /\ mus' = [stage |-> "key", key |-> KeyFromResults(mus.profile_results)]
    /\ mpc' = "voted"
    /\ UNCHANGED <<chroma, overflow_checks>>

\* The key is taken.
VoteDiscard ==
    /\ mpc = "voted"
    /\ mus' = NoMusic
    /\ mpc' = "idle"
    /\ UNCHANGED <<chroma, overflow_checks>>

-----------------------------------------------------------------------------
(* A session: one LoudnessAnalyzer and one MusicAnalyzer, called again and   *)
(* again by the host, one call at a time.                                   *)

\* the buffers the host analyses in a session, two channels interleaved
SessionPcm ==
    {[len |-> 2 * MOMENTARY_BLOCK_SIZE, chans |-> 2, motif |-> <<10000>>],
     [len |-> 2 * (MOMENTARY_BLOCK_SIZE + 3 * MOMENTARY_HOP), chans |-> 2,
      motif |-> <<25000, 30>>]}

\* the buffers the host hands to analyze_music in a session
SessionMusicPcm ==
    {[len |-> FFT_SIZE + 9 * HOP_SIZE, motif |-> <<SineA4>>, tuning |-> SineTuning],
     [len |-> FFT_SIZE + 14 * HOP_SIZE, motif |-> <<ChordC, SineA4, Quiet>>, tuning |-> 0]}

\* no call is running
AllIdle ==
    /\ lpc = "idle"
    /\ pcm = EmptyBuffer
    /\ xpc = "idle"
    /\ xpcm.len = 0
    /\ mpc = "idle"

\* the pooled vector in the unit of the key detector, thousandths
ChromaOf(pooled) ==
    CHOOSE chroma_v \in {[i \in 1..12 |-> v[i] \div 1000] : v \in {pooled}} : TRUE

\* what analyze_music returns: key, scales and chroma
MusicRecord ==
    [root          |-> mus.key.root,
     is_major      |-> mus.key.is_major,
     confidence    |-> mus.key.confidence,
     scale_matches |-> mus.scale_matches,
     chroma        |-> chroma]

\* the first record returned for a buffer is kept
Remember(seen, buffer, record) ==
    IF \E h \in seen : h[1] = buffer THEN seen ELSE seen \cup {<<buffer, record>>}

\* MusicAnalyzer::set_skey_enabled
SetSkeyEnabled ==
    /\ AllIdle
    /\ \E enabled \in BOOLEAN : skey_enabled' = enabled
    /\ skey_enabled' # skey_enabled
    /\ UNCHANGED <<history, calls>>

\* the host calls analyze on a buffer
CallAnalyze ==
    /\ AllIdle
    /\ num_channels # 0
    /\ pcm' \in SessionPcm
    /\ UNCHANGED <<num_channels, lpc, loud, result>>

\* analyze returns its record
ReturnAnalyze ==
    /\ lpc = "done"
    /\ history' = [history EXCEPT !.loudness = Remember(@, pcm, result)]
    /\ Discard
    /\ UNCHANGED <<skey_enabled, calls>>

\* the host calls analyze_music on a buffer
CallAnalyzeMusic ==
    /\ AllIdle
    /\ xpcm' \in SessionMusicPcm
    /\ UNCHANGED <<xpc, ext, xout>>

\* analyze_music, line 95: the chroma vector is what the extractor returned
MusicFromExtract ==
    /\ xpc = "done"
    /\ mpc = "idle"
    /\ chroma' = ChromaOf(xout)
    /\ mpc' = "key"
    /\ mus' = NoMusic
    /\ UNCHANGED overflow_checks

\* analyze_music returns its record
ReturnAnalyzeMusic ==
    /\ mpc = "done"
    /\ xpc = "done"
    /\ history' = [history EXCEPT !.music = Remember(@, xpcm, MusicRecord)]
    /\ ExtractDiscard
    /\ MusicDiscard
    /\ UNCHANGED <<skey_enabled, calls>>

-----------------------------------------------------------------------------
(* The functions as a whole: what one call computes from its buffer when    *)
(* nothing else runs.                                                       *)

\* LoudnessAnalyzer::analyze, lines 452-522, on an analyzer of nch channels
analyze(p, nch) ==
    LET momentary_energies  == process_blocks(p, nch, MOMENTARY_BLOCK_SIZE, MOMENTARY_HOP)
        short_term_energies == process_blocks(p, nch, SHORT_TERM_BLOCK_SIZE, SHORT_TERM_HOP)
    IN  AnalyzeResult(p, [momentary_energies  |-> momentary_energies,
                          momentary_max       |-> calculate_max_loudness(momentary_energies),
                          short_term_max      |-> calculate_max_loudness(short_term_energies),
                          integrated_loudness |->
                              calculate_integrated_loudness(momentary_energies)])

\* extract_advanced, lines 95-132: the window loop from window_start on
RECURSIVE WindowLoop(_, _, _, _, _, _)
WindowLoop(p, tuning_offset, max_samples, st, frame_count, window_start) ==
    IF \/ window_start >= max_samples
       \/ window_start + FFT_SIZE > max_samples
       \/ frame_count >= 100
    THEN st
    ELSE LET kind == WindowKind(p, window_start)
         IN  IF kind.quiet
             THEN WindowLoop(p, tuning_offset, max_samples, st, frame_count,
                             window_start + HOP_SIZE)
             ELSE CHOOSE after \in
                      {WindowLoop(p, tuning_offset, max_samples, added,
                                  frame_count + 1, window_start + HOP_SIZE) :
                          added \in {add_frame(st,
                                         compute_hpcp_frame(kind.peaks, tuning_offset))}} :
                      TRUE

\* ChromaExtractor::extract_advanced
extract_advanced(p) ==
    get_pooled_hpcp(WindowLoop(p, p.tuning, Min2(MAX_ANALYSIS_SAMPLES, p.len),
                               HpcpNew, 0, 0))

\* MusicAnalyzer::analyze_music, lines 93-145: key, scales and chroma
analyze_music(p) ==
    CHOOSE record \in
        {LET key       == detect_key(chroma_v)
             strengths == ScaleStrengths(chroma_v)
         IN  [root          |-> key.root,
              is_major      |-> key.is_major,
              confidence    |-> key.confidence,
              scale_matches |-> analyze_scales(strengths, key.root),
              chroma        |-> chroma_v] :
            chroma_v \in {ChromaOf(extract_advanced(p))}} : TRUE

-----------------------------------------------------------------------------
(* Two invocations side by side.  Each holds its own buffer and its own     *)
(* working memory (calls[i]); the analyzer's num_channels and the constant  *)
(* tables are read by both.  A step is one pass of a loop of the code, so   *)
(* the steps of the two invocations interleave inside process_blocks, inside *)
(* the window loop and inside the vote loop.                                *)

Invocations == {1, 2}

\* the buffer each invocation of analyze holds, two channels interleaved
ParallelPcm ==
    [i \in Invocations |->
        IF i = 1
        THEN [len |-> 2 * MOMENTARY_BLOCK_SIZE, chans |-> 2, motif |-> <<10000>>]
        ELSE [len |-> 2 * (MOMENTARY_BLOCK_SIZE + MOMENTARY_HOP), chans |-> 2,
              motif |-> <<25000, 30>>]]

\* the buffer each invocation of analyze_music holds
ParallelMusicPcm ==
    [i \in Invocations |->
        IF i = 1
        THEN [len |-> FFT_SIZE + 9 * HOP_SIZE, motif |-> <<SineA4>>, tuning |-> SineTuning]
        ELSE [len |-> FFT_SIZE + 10 * HOP_SIZE, motif |-> <<ChordC, SineA4>>, tuning |-> 0]]

\* calculate_weighted_consensus, line 79: vec![0.0; 24]
NoVotes == [key_idx \in 0..23 |-> 0]

\* calculate_block_energy, line 354: let mut energy = 0.0
NoEnergy == [q |-> 0, r |-> 0]

\* the working memory of an invocation of `kind` entered with buffer p
NewCall(kind, p) ==
    [kind |-> kind, pcm |-> p, mixed |-> FALSE,
     pc   |-> IF kind = "analyze" THEN "momentary"
              ELSE IF kind = "analyze_music" THEN "window" ELSE "idle",
     i |-> 0, ch |-> 0, taps |-> FreshTaps(NoEnergy), block_energies |-> <<>>,
     momentary_energies |-> <<>>, short_term_energies |-> <<>>,
     hpcp_state |-> HpcpNew, frame_count |-> 0, window_start |-> 0,
     chroma |-> ZeroVector, profile_results |-> <<>>, key_votes |-> NoVotes,
     total_weight |-> 0, key |-> NoMusic, out |-> NoResult]

IdleCall == NewCall("none", EmptyBuffer)

ParallelInit == calls = [i \in Invocations |-> IdleCall]

\* invocation i is between its call and its return
Running(i) == calls[i].pc \notin {"idle", "done"}

\* invocation i takes a step to the working memory l; `mixed` remembers
\* that the other invocation was running at one of its steps
Stepped(i, l) ==
    calls' = [calls EXCEPT ![i] =
                 [l EXCEPT !.mixed = @ \/ \E j \in Invocations \ {i} : Running(j)]]

\* Variant: process_blocks of every invocation pushes to one vector, that of
\* the first invocation.
BlockEnergies_shared(c, i) == c[1].block_energies

\* process_blocks, line 391: `let mut block_energies = Vec::new()`, a local
BlockEnergies(c, i) == c[i].block_energies

\* process_blocks is at its momentary or at its short-term pass
BlockSizeAt(pc) == IF pc = "momentary" THEN MOMENTARY_BLOCK_SIZE ELSE SHORT_TERM_BLOCK_SIZE

HopAt(pc) == IF pc = "momentary" THEN MOMENTARY_HOP ELSE SHORT_TERM_HOP

\* process_blocks, line 394: `while i + block_size <= samples_per_channel`
InBlockLoop(l) ==
    /\ l.kind = "analyze"
    /\ l.pc \in {"momentary", "short"}
    /\ l.i + BlockSizeAt(l.pc) <= PcmLength(l.pcm) \div num_channels

\* the host calls analyze on invocation i
ParallelCallAnalyze(i) ==
    /\ calls[i].pc = "idle"
    /\ Stepped(i, NewCall("analyze", ParallelPcm[i]))

\* the host calls analyze_music on invocation i
ParallelCallAnalyzeMusic(i) ==
    /\ calls[i].pc = "idle"
    /\ Stepped(i, NewCall("analyze_music", ParallelMusicPcm[i]))

\* calculate_block_energy, lines 357-383: one channel of the block at i goes
\* through the filter, on taps zeroed at line 358-361
ParallelFilterChannel(i) ==
    LET l == calls[i]
        visited == Visited(BlockSizeAt(l.pc))
    IN  /\ InBlockLoop(l)
        /\ l.ch < num_channels
        /\ Stepped(i, [l EXCEPT
               !.taps = FilterChannel(l.pcm, num_channels, l.i, l.ch, 0, visited,
                                      visited * num_channels, FreshTaps(l.taps.acc)),
               !.ch = @ + 1])

\* process_blocks, lines 395-403: the energy of the block is gated and pushed
ParallelPushBlock(i) ==
    LET l == calls[i]
        energy == l.taps.acc.q
    IN  /\ InBlockLoop(l)
        /\ l.ch >= num_channels
        /\ Stepped(i, [l EXCEPT
               !.block_energies = IF PassesAbsoluteGate(energy)
                                  THEN Append(BlockEnergies(calls, i), energy)
                                  ELSE BlockEnergies(calls, i),
               !.i = @ + HopAt(l.pc),
               !.ch = 0,
               !.taps = FreshTaps(NoEnergy)])

\* process_blocks, line 406: the vector is returned to analyze
ParallelReturnBlocks(i) ==
    LET l == calls[i]
    IN  /\ l.kind = "analyze"
        /\ l.pc \in {"momentary", "short"}
        /\ ~InBlockLoop(l)
        /\ Stepped(i, IF l.pc = "momentary"
                      THEN [l EXCEPT !.momentary_energies = BlockEnergies(calls, i),
                                     !.block_energies = <<>>, !.i = 0, !.pc = "short"]
                      ELSE [l EXCEPT !.short_term_energies = BlockEnergies(calls, i),
                                     !.block_energies = <<>>, !.i = 0, !.pc = "report"])

\* analyze, lines 459-522: maxima, integrated loudness, calibration, record
ParallelReport(i) ==
    LET l == calls[i]
    IN  /\ l.kind = "analyze"
        /\ l.pc = "report"
        /\ Stepped(i, [l EXCEPT
               !.out = AnalyzeResult(l.pcm,
                   [momentary_energies  |-> l.momentary_energies,
                    momentary_max       |-> calculate_max_loudness(l.momentary_energies),
                    short_term_max      |-> calculate_max_loudness(l.short_term_energies),
                    integrated_loudness |->
                        calculate_integrated_loudness(l.momentary_energies)]),
               !.pc = "done"])

\* extract_advanced, lines 95-132: one pass of the window loop
ParallelWindow(i) ==
    LET l == calls[i]
        max_samples == Min2(MAX_ANALYSIS_SAMPLES, l.pcm.len)
    IN  /\ l.kind = "analyze_music"
        /\ l.pc = "window"
        /\ IF \/ l.window_start >= max_samples
              \/ l.window_start + FFT_SIZE > max_samples
              \/ l.frame_count >= 100
           THEN Stepped(i, [l EXCEPT !.pc = "pool"])
           ELSE LET kind == WindowKind(l.pcm, l.window_start)
                IN  IF kind.quiet
                    THEN Stepped(i, [l EXCEPT !.window_start = @ + HOP_SIZE])
                    ELSE Stepped(i, [l EXCEPT
                             !.hpcp_state = add_frame(@,
                                 compute_hpcp_frame(kind.peaks, l.pcm.tuning)),
                             !.frame_count = @ + 1,
                             !.window_start = @ + HOP_SIZE])

\* extract_advanced, line 135, and detect_key, lines 15-35: the pooled
\* vector and the results of the five profile sets
ParallelPool(i) ==
    LET l == calls[i]
    IN  /\ l.kind = "analyze_music"
        /\ l.pc = "pool"
        /\ \E chroma_v \in {ChromaOf(get_pooled_hpcp(l.hpcp_state))} :
              Stepped(i, [l EXCEPT !.chroma = chroma_v,
                                   !.profile_results = ProfileResults(chroma_v),
                                   !.key_votes = NoVotes,
                                   !.total_weight = 0,
                                   !.i = 1,
                                   !.pc = "votes"])

\* calculate_weighted_consensus, lines 82-87: one pass of the vote loop
ParallelVote(i) ==
    LET l == calls[i]
    IN  /\ l.kind = "analyze_music"
        /\ l.pc = "votes"
        /\ l.i <= Len(l.profile_results)
        /\ LET r == l.profile_results[l.i].result
               key_idx == IF r.is_major THEN r.root ELSE r.root + 12
               vote_strength == r.confidence * l.profile_results[l.i].weight
           IN  Stepped(i, [l EXCEPT !.key_votes[key_idx] = @ + vote_strength,
                                    !.total_weight = @ + vote_strength,
                                    !.i = @ + 1])

\* calculate_weighted_consensus, lines 90-104, and detect_key, lines 41-44
ParallelConsensus(i) ==
    LET l == calls[i]
        best_idx == LastMaxIndex(l.key_votes)
        consensus_confidence == IF l.total_weight > 0
                                THEN (l.key_votes[best_idx] * 1000) \div l.total_weight
                                ELSE 0
    IN  /\ l.kind = "analyze_music"
        /\ l.pc = "votes"
        /\ l.i > Len(l.profile_results)
        /\ Stepped(i, [l EXCEPT
               !.key = [root       |-> ConsensusRoot(best_idx),
                        is_major   |-> best_idx < 12,
                        confidence |-> FinalConfidence(consensus_confidence,
                                           calculate_profile_agreement(l.profile_results))],
               !.pc = "scales"])

\* analyze_music, lines 102-144: the scale matches and the record
ParallelScales(i) ==
    LET l == calls[i]
        strengths == ScaleStrengths(l.chroma)
    IN  /\ l.kind = "analyze_music"
        /\ l.pc = "scales"
        /\ Stepped(i, [l EXCEPT
               !.out = [root          |-> l.key.root,
                        is_major      |-> l.key.is_major,
                        confidence    |-> l.key.confidence,
                        scale_matches |-> analyze_scales(strengths, l.key.root),
                        chroma        |-> l.chroma],
               !.pc = "done"])

\* the record is handed to the host; the working memory is dropped
ParallelReturn(i) ==
    /\ calls[i].pc = "done"
    /\ calls' = [calls EXCEPT ![i] = IdleCall]

-----------------------------------------------------------------------------
(* analyze_music_with_skey, music/mod.rs 149-225, and SKEYNetwork,          *)
(* music/skey.rs.  The three auxiliary features of a buffer (spectral       *)
(* centroid, zero crossing rate, RMS energy, each in 0..1, in thousandths)  *)
(* are part of the buffer's description.  The forward pass of the network   *)
(* is not computed: what predict returns for 15 features on an initialized  *)
(* network is any of SkeyOutcomes.                                          *)

\* the buffers handed to analyze_music_with_skey: empty, one sample short of
\* 4096, 4096 and ten windows
SkeyPcm ==
    {[len |-> n, motif |-> m, tuning |-> 0, aux |-> <<500, 100, 300>>] :
        n \in {0, FFT_SIZE - 1, FFT_SIZE, FFT_SIZE + 9 * HOP_SIZE},
        m \in {<<SineA4>>, <<ChordC, SineA4>>}}

\* Result::Err
Err(message) == [ok |-> FALSE, error |-> message]

\* Result::Ok
Ok(value) == [ok |-> TRUE, value |-> value]

\* MusicAnalyzer::extract_auxiliary_features
extract_auxiliary_features(p) ==
    LET max_samples == Min2(p.len \div 4, 44100 * 2)
    IN  IF max_samples < 1024
        THEN Err("Audio too short for feature extraction")
        ELSE Ok(p.aux)

\* MusicAnalyzer::extract_skey_features: the `?` hands the error on
extract_skey_features(p) ==
    LET chroma_v           == ChromaOf(extract_advanced(p))
        auxiliary_features == extract_auxiliary_features(p)
    IN  IF ~auxiliary_features.ok THEN auxiliary_features
        ELSE Ok(chroma_v \o auxiliary_features.value)

\* SKEYNetwork::new
SKEYNetworkNew == [initialized |-> FALSE]

\* SKEYNetwork::initialize: the weights are set, the result is always Ok
initialize(network) == [network |-> [initialized |-> TRUE], result |-> Ok(<<>>)]

\* what the forward pass can return: the greatest of 24 softmax values is at
\* least 1/24, and the confidence is min(1.5 * it, 0.95)
SkeyOutcomes ==
    {[root |-> r, is_major |-> m, confidence |-> c] :
        r \in {0, 7}, m \in BOOLEAN, c \in {63, 101, 950}}

\* SKEYNetwork::predict, with the outcome of its forward pass
predict(network, features, outcome) ==
    IF ~network.initialized THEN Err("S-KEY network not initialized")
    ELSE IF Len(features) # 15 THEN Err("Expected 15 features")
    ELSE Ok(outcome)

\* the (root, is_major, confidence) triple of a detect_key result
Triple(key) == [root |-> key.root, is_major |-> key.is_major, confidence |-> key.confidence]

\* analyze_music_with_skey, lines 157-159: the result before the enhancement
TraditionalChoice(traditional) ==
    [final_result |-> traditional, method |-> "Traditional", enhanced |-> FALSE]

\* Variant: a failed prediction counts as a prediction of C major.
AfterPredict_default(traditional, prediction) ==
    IF prediction.ok
    THEN TraditionalChoice(traditional)
    ELSE [final_result |-> [root |-> 0, is_major |-> TRUE, confidence |-> 0],
          method |-> "S-KEY Enhanced", enhanced |-> TRUE]

\* analyze_music_with_skey, lines 165-175: the match on predict's result
AfterPredict(traditional, prediction) ==
    IF /\ prediction.ok
       /\ prediction.value.confidence > 100
       /\ \/ prediction.value.confidence * 10 > traditional.confidence * 8
          \/ traditional.confidence < 400
    THEN [final_result |-> prediction.value, method |-> "S-KEY Enhanced", enhanced |-> TRUE]
    ELSE TraditionalChoice(traditional)

\* Variant: a failed feature extraction counts as a prediction of C major.
AfterFeatures_default(traditional, skey_features, outcome) ==
    IF skey_features.ok
    THEN TraditionalChoice(traditional)
    ELSE AfterPredict_default(traditional, skey_features)

\* analyze_music_with_skey, lines 162-179: the match on extract_skey_features
AfterFeatures(traditional, skey_features, outcome) ==
    IF skey_features.ok
    THEN LET skey_network == initialize(SKEYNetworkNew)
         IN  IF skey_network.result.ok
             THEN AfterPredict(traditional,
                               predict(skey_network.network, skey_features.value, outcome))
             ELSE TraditionalChoice(traditional)
    ELSE TraditionalChoice(traditional)

\* the host calls analyze_music_with_skey on a buffer
CallAnalyzeMusicWithSkey ==
    /\ AllIdle
    /\ xpcm' \in SkeyPcm
    /\ UNCHANGED <<xpc, ext, xout>>

\* analyze_music_with_skey, lines 156-180: the S-KEY enhancement is tried
TrySkey ==
    /\ mpc = "scales"
    /\ mus.stage = "key"
    /\ \E skey_features \in {IF skey_enabled THEN extract_skey_features(xpcm)
                              ELSE Err("S-KEY disabled")} :
       \E outcome \in SkeyOutcomes :
          LET traditional == Triple(mus.key)
              choice      == IF skey_enabled
                             THEN AfterFeatures(traditional, skey_features, outcome)
                             ELSE TraditionalChoice(traditional)
          IN  mus' = [stage         |-> "skey",
                      key           |-> mus.key,
                      skey_features |-> skey_features,
                      final_result  |-> choice.final_result,
                      method        |-> choice.method,
                      enhanced      |-> choice.enhanced]
    /\ mpc' = "enhanced"
    /\ UNCHANGED <<chroma, overflow_checks>>

\* analyze_music_with_skey, lines 183-222: the scales and the result object
SkeyScales ==
    /\ mpc = "enhanced"
    /\ LET strengths == ScaleStrengths(chroma)
       IN  mus' = [stage                  |-> "scales",
                   key                    |-> mus.key,
                   skey_features          |-> mus.skey_features,
                   final_result           |-> mus.final_result,
                   method                 |-> mus.method,
                   enhanced               |-> mus.enhanced,
                   traditional_confidence |-> mus.key.confidence,
                   scale_matches          |-> analyze_scales(strengths, mus.final_result.root)]
    /\ mpc' = "done"
    /\ UNCHANGED <<chroma, overflow_checks>>

\* analyze_music_with_skey returns its record
ReturnSkey ==
    /\ mpc = "done"
    /\ xpc = "done"
    /\ ExtractDiscard
    /\ MusicDiscard

-----------------------------------------------------------------------------
(* Properties of the chroma extractor *)

Abs(n) == IF n < 0 THEN -n ELSE n

\* the HpcpState of a finished extract_advanced call reports ready
PooledWhenReady == xpc = "done" /\ ext.hpcp_state.ready

SomeFrameNonZero ==
    \E k \in 1..Len(ext.hpcp_state.frames) : ext.hpcp_state.frames[k] # ZeroVector

SomeFrameZero ==
    \E k \in 1..Len(ext.hpcp_state.frames) : ext.hpcp_state.frames[k] = ZeroVector

\* C7 as it is stated: whenever the HPCP state is ready, the pooled vector
\* sums to 1.0 within 1e-5, whatever frames add_frame received.
C7_Original_SumsToOne ==
    PooledWhenReady => Abs(SumSeq(xout) - 1000000) <= 10

\* C7: whenever the HPCP state is ready, the pooled 12-bin vector sums to 1.0
\* within 1e-5 if some buffered frame is not all-zero, and is the all-zero
\* vector if every buffered frame is all-zero.
C7_PooledNormalizedOrZero ==
    PooledWhenReady =>
        /\ Len(xout) = 12
        /\ IF SomeFrameNonZero THEN Abs(SumSeq(xout) - 1000000) <= 10
           ELSE xout = ZeroVector

\* a ready state whose 50 buffered frames are some all-zero and some not, pooled
C7_Witness ==
    /\ PooledWhenReady
    /\ Len(ext.hpcp_state.frames) = 50
    /\ SomeFrameNonZero
    /\ SomeFrameZero
    /\ Abs(SumSeq(xout) - 1000000) <= 10

-----------------------------------------------------------------------------
(* Properties of key detection and scale matching *)

KeyDetected == mpc \in {"scales", "done", "panicked"}

\* C8: for any chroma, the confidence detect_key returns lies in [0.05, 0.95]
\* and the root it returns in 0..11.
C8_ConfidenceBound ==
    KeyDetected =>
        /\ mus.key.confidence >= 50
        /\ mus.key.confidence <= 950
        /\ mus.key.root \in 0..11

\* consensus and agreement multiply to more than 0.95 and the limit is returned
C8_Witness ==
    /\ KeyDetected
    /\ (mus.key.consensus.confidence * mus.key.agreement_factor) \div 1000 > 950
    /\ mus.key.confidence = 950

CandidateCount == 12 * Len(common_patterns)

\* candidate c is not among the matches returned
Dropped(c) ==
    \A k \in 1..Len(mus.scale_matches) : mus.scale_matches[k].name # CandidateName(c)

\* C9: analyze_scales returns at most 8 matches, each of a strength above
\* 0.10, in the order of non-increasing strength, and they are the strongest
\* of the 108 candidates: a candidate left out is at or below the threshold, or
\* 8 matches are returned and none of them is weaker than it.
C9_ScaleMatchShape ==
    mpc = "done" =>
        LET m == mus.scale_matches
            s == mus.strengths
        IN  /\ Len(m) <= 8
            /\ \A k \in 1..Len(m) : m[k].strength > 100000
            /\ \A k \in 1..(Len(m) - 1) : m[k].strength >= m[k + 1].strength
            /\ \A k \in 1..Len(m) :
                   \E c \in 1..CandidateCount :
                       CandidateName(c) = m[k].name /\ s[c] = m[k].strength
            /\ \A j, k \in 1..Len(m) : j # k => m[j].name # m[k].name
            /\ \A c \in 1..CandidateCount :
                   Dropped(c) =>
                       \/ s[c] <= 100000
                       \/ Len(m) = 8 /\ \A k \in 1..8 : s[c] <= m[k].strength

\* 8 matches returned, one candidate above the threshold cut off and one
\* candidate left out by the threshold
C9_Witness ==
    /\ mpc = "done"
    /\ Len(mus.scale_matches) = 8
    /\ \E c \in 1..CandidateCount : Dropped(c) /\ mus.strengths[c] > 100000
    /\ \E c \in 1..CandidateCount : mus.strengths[c] <= 100000

\* energy on the pitch classes of C major and on no other
CMajorTemplate == \A i \in 0..11 : chroma[i + 1] > 0 <=> i \in MajorScale

\* the candidates whose pitch classes are those of C major
CMajorModes ==
    {<<"C", "Major">>, <<"D", "Dorian">>, <<"F", "Lydian">>, <<"G", "Mixolydian">>,
     <<"A", "Natural Minor">>}

\* C10 as it is stated: for a C major template the first match is "C Major"
\* and it is strictly stronger than every other candidate.
C10_Original_StrictlyStrongest ==
    (mpc = "done" /\ CMajorTemplate) =>
        /\ Len(mus.scale_matches) >= 1
        /\ mus.scale_matches[1].name = <<"C", "Major">>
        /\ \A c \in 1..CandidateCount :
               CandidateName(c) # <<"C", "Major">>
                   => mus.strengths[c] < mus.scale_matches[1].strength

\* C10: for a C major template the first match is "C Major"; no candidate is
\* stronger; D Dorian, F Lydian, G Mixolydian and A Natural Minor are exactly
\* as strong, and every other candidate is strictly weaker.
C10_CMajorFirstAmongEquals ==
    (mpc = "done" /\ CMajorTemplate) =>
        /\ Len(mus.scale_matches) >= 1
        /\ mus.scale_matches[1].name = <<"C", "Major">>
        /\ \A c \in 1..CandidateCount :
               IF CandidateName(c) \in CMajorModes
               THEN mus.strengths[c] = mus.scale_matches[1].strength
               ELSE mus.strengths[c] < mus.scale_matches[1].strength

\* a C major template analysed: "A Natural Minor" is second with the strength of the first
C10_Witness ==
    /\ mpc = "done"
    /\ CMajorTemplate
    /\ Len(mus.scale_matches) >= 2
    /\ mus.scale_matches[1].name = <<"C", "Major">>
    /\ mus.scale_matches[2].name = <<"A", "Natural Minor">>
    /\ mus.scale_matches[2].strength = mus.scale_matches[1].strength

-----------------------------------------------------------------------------
(* Properties of pitch classes and of the extraction of a sine *)

\* bin b (0..11) of v is larger than every other bin
LargestBinIs(v, b) == \A i \in 0..11 : i # b => v[i + 1] < v[b + 1]

\* a finished extraction of a buffer holding one sine and long enough for ten frames
SineExtracted(kind) ==
    /\ xpc = "done"
    /\ xpcm.motif = <<kind>>
    /\ xpcm.tuning = SineTuning
    /\ ext.hpcp_state.ready

\* frequencies from 0.01 Hz to 10 kHz, in hundredths of a Hz
ProbeFreqs == {k * k + 1 : k \in 0..1000} \cup {MIN_FREQ, 44000, 46616}

PitchClassLaw ==
    /\ freq_to_pitch_class_precise(44000) = 9
    /\ freq_to_pitch_class_precise(46616) = 10
    /\ \A f \in ProbeFreqs :
           /\ freq_to_pitch_class_precise(f) \in 0..11
           /\ freq_to_pitch_class_precise(2 * f) = freq_to_pitch_class_precise(f)

-----------------------------------------------------------------------------
(* Properties of repeated calls *)

\* C12: a call of analyze or of analyze_music on a buffer returns the record
\* the first call on that buffer returned, whatever calls were made in between.
C12_RepeatedCallsAgree ==
    /\ lpc = "done" => \A h \in history.loudness : h[1] = pcm => h[2] = result
    /\ (mpc = "done" /\ xpc = "done") =>
           \A h \in history.music : h[1] = xpcm => h[2] = MusicRecord

\* analyze_music has finished a second time on a buffer, after analyze calls and
\* a call of set_skey_enabled, all buffers of the session analysed before
C12_Witness ==
    /\ mpc = "done"
    /\ xpc = "done"
    /\ \E h \in history.music : h[1] = xpcm
    /\ Cardinality(history.music) = 2
    /\ Cardinality(history.loudness) = 2
    /\ ~skey_enabled

-----------------------------------------------------------------------------
(* Properties of invocations running side by side *)

\* what analyze_music returns for each of the buffers, computed alone
AloneMusic == [i \in Invocations |-> analyze_music(ParallelMusicPcm[i])]

\* C13: whatever the interleaving of the steps of two invocations, each
\* returns the record the same call returns for its buffer when it runs
\* alone.
C13_ParallelAsAlone ==
    \A i \in Invocations :
        calls[i].pc = "done" =>
            calls[i].out = IF calls[i].kind = "analyze"
                           THEN analyze(calls[i].pcm, num_channels)
                           ELSE AloneMusic[i]

\* two analyze calls on different buffers have both finished, each having
\* taken steps while the other was running
C13_Witness ==
    /\ \A i \in Invocations :
          calls[i].pc = "done" /\ calls[i].mixed /\ calls[i].kind = "analyze"
    /\ calls[1].pcm # calls[2].pcm
    /\ calls[1].out.totalBlocks = 1
    /\ calls[2].out.totalBlocks = 2

-----------------------------------------------------------------------------
(* Properties of the S-KEY path *)

\* the results predict can be handed back with: network fresh or initialized,
\* 12 or 15 features
PredictResults ==
    {predict(network, features, outcome) :
        network \in {SKEYNetworkNew, initialize(SKEYNetworkNew).network},
        features \in {chroma, chroma \o <<500, 100, 300>>},
        outcome \in SkeyOutcomes}

\* C14: when extract_auxiliary_features or predict returns Err,
\* analyze_music_with_skey returns a complete record whose key, mode and
\* confidence are those of detect_key, with method "Traditional" and
\* enhanced false.
C14_SkeyFailureFallsBack ==
    /\ (mpc = "done" /\ skey_enabled /\ ~mus.skey_features.ok) =>
          /\ mus.final_result = Triple(detect_key(chroma))
          /\ mus.method = "Traditional"
          /\ mus.enhanced = FALSE
          /\ mus.traditional_confidence = mus.final_result.confidence
          /\ Len(mus.scale_matches) <= 8
    /\ mpc = "enhanced" =>
          \A prediction \in PredictResults :
              ~prediction.ok =>
                  AfterPredict(Triple(mus.key), prediction) = TraditionalChoice(Triple(mus.key))

\* a call on a non-empty buffer of fewer than 4096 samples has returned with
\* S-KEY enabled: the features could not be extracted
C14_Witness ==
    /\ mpc = "done"
    /\ skey_enabled
    /\ xpcm.len = FFT_SIZE - 1
    /\ ~mus.skey_features.ok
    /\ mus.method = "Traditional"

-----------------------------------------------------------------------------
(* Properties of the error behaviour of the loudness engine *)

\* C15: for every buffer and every channel count an analyzer can be
\* constructed with, 0 included, analyze runs without a division trap.
C15_NoDivisionTrap == lpc # "trapped"

\* analyze has been called on an analyzer constructed with 0 channels and has
\* stopped in process_blocks, at the division pcm.length() / num_channels
C15_TrapReached ==
    /\ num_channels = 0
    /\ lpc = "trapped"
    /\ result = NoResult

-----------------------------------------------------------------------------
(* Properties of HpcpState inside extract_advanced *)

\* extract_advanced holds an HpcpState
InExtraction == xpc \in {"loop", "pool", "done"}

\* a pass of the window loop that calls add_frame
AddsFrame == xpc = "loop" /\ xpc' = "loop" /\ ext'.frame_count = ext.frame_count + 1

\* the frame that pass computes
FrameOfPass ==
    compute_hpcp_frame(WindowKind(xpcm, ext.window_start).peaks, ext.tuning_offset)

\* C16: HpcpState is a FIFO of capacity 50.  A fresh state is empty; each
\* add_frame puts the new frame last, keeps the order of the others and, when
\* 50 are held already, removes exactly the oldest; so the state holds the
\* last min(n, 50) of the n frames added, never more than 50.
C16_FifoOfFifty ==
    /\ [](InExtraction =>
             /\ Len(ext.hpcp_state.frames) <= 50
             /\ Len(ext.hpcp_state.frames) = Min2(ext.frame_count, 50))
    /\ [][(xpc = "idle" /\ xpc' = "loop") => ext'.hpcp_state.frames = <<>>]_vars
    /\ [][AddsFrame =>
             LET before == ext.hpcp_state.frames
                 kept   == Min2(Len(before), 49)
             IN  ext'.hpcp_state.frames =
                     Append(SubSeq(before, Len(before) - kept + 1, Len(before)),
                            FrameOfPass)]_vars

\* 51 frames were added, of two kinds in turn: the first one is gone, the
\* second one is now the oldest and differs from the newest
C16_Witness ==
    /\ xpc = "loop"
    /\ xpcm.motif = <<SineA4, ChordC>>
    /\ ext.frame_count = 51
    /\ Len(ext.hpcp_state.frames) = 50
    /\ ext.hpcp_state.frames[1] = compute_hpcp_frame(ChordC.peaks, ext.tuning_offset)
    /\ ext.hpcp_state.frames[50] = compute_hpcp_frame(SineA4.peaks, ext.tuning_offset)
    /\ ext.hpcp_state.frames[1] # ext.hpcp_state.frames[50]

\* C17: ready is false on a fresh HpcpState, is true after an add_frame call
\* exactly if 10 or more frames were added so far, and once true stays true,
\* also when frames are evicted.
C17_ReadyFlag ==
    /\ [](InExtraction => (ext.hpcp_state.ready <=> ext.frame_count >= 10))
    /\ [][(xpc = "idle" /\ xpc' = "loop") => ~ext'.hpcp_state.ready]_vars
    /\ [][(InExtraction /\ xpc' \in {"loop", "pool", "done"} /\ ext.hpcp_state.ready)
             => ext'.hpcp_state.ready]_vars

\* the 100th frame was added, 50 frames were evicted, and ready still holds
C17_Witness ==
    /\ xpc = "loop"
    /\ ext.frame_count = 100
    /\ ext.hpcp_state.frame_count = 100
    /\ Len(ext.hpcp_state.frames) = 50
    /\ ext.hpcp_state.ready

\* C18: extract_advanced returns the all-zero profile if fewer than 10
\* frames were added (buffer too short, or windows skipped for their low
\* energy); otherwise it returns, per bin, 0.7 * median + 0.3 * mean over the
\* buffered frames, divided by the sum of the twelve (left as it is when the
\* sum is 0).
C18_PooledProfile ==
    xpc = "done" =>
        IF ext.frame_count < 10
        THEN xout = ZeroVector
        ELSE LET frames == ext.hpcp_state.frames
                 pooled == SubSeq([bin \in 1..12 |-> PooledBin(frames, bin)], 1, 12)
                 sum    == SumSeq(pooled)
             IN  /\ Len(frames) = Min2(ext.frame_count, 50)
                 /\ xout = IF sum > 0
                           THEN [bin \in 1..12 |-> MulDivRound(pooled[bin], 1000000, sum)]
                           ELSE pooled

\* a buffer of ten or more windows of which fewer than ten had the energy to
\* be analysed: frames were added, and the profile returned is all-zero
C18_Witness ==
    /\ xpc = "done"
    /\ xpcm.len >= FFT_SIZE + 9 * HOP_SIZE
    /\ ext.frame_count \in 1..9
    /\ ext.hpcp_state.frames # <<>>
    /\ xout = ZeroVector

\* a pass of the window loop that takes a window (analysed or skipped for its
\* low energy)
TakesWindow == xpc = "loop" /\ xpc' = "loop"

\* C19: in extract_advanced the window starts are 0, 2048, 4096, ...; a window
\* is taken only if it lies entirely inside the first min(length, 44100 * 60)
\* samples; at most 100 frames are added to the HpcpState in one call; and the
\* loop always terminates.
C19_FramingBounds ==
    /\ [](xpc = "loop" =>
             /\ ext.window_start % 2048 = 0
             /\ ext.frame_count <= 100
             /\ ext.hpcp_state.frame_count = ext.frame_count)
    /\ [](xpc \in {"pool", "done"} => ext.hpcp_state.frame_count <= 100)
    /\ [][(xpc = "idle" /\ xpc' = "loop") => ext'.window_start = 0]_vars
    /\ [][TakesWindow =>
             /\ ext.window_start + 4096 <= Min2(xpcm.len, 44100 * 60)
             /\ ext.frame_count < 100
             /\ ext'.window_start = ext.window_start + 2048]_vars
    /\ (xpc = "loop") ~> (xpc = "pool")

\* the loop was left with 100 frames added although a further window fits
C19_Witness ==
    /\ xpc = "pool"
    /\ ext.frame_count = 100
    /\ ext.hpcp_state.frame_count = 100
    /\ ext.window_start + FFT_SIZE <= xpcm.len

\* the samples of one channel of a block, and nothing else of the buffer
BlockSamples(p, nch, start, block_size, ch) ==
    LET n == Visited(block_size)
    IN  SubSeq([k \in 1..n |-> SampleOf(p, nch, start, ch, k - 1)], 1, n)

\* the K-weighting filter over samples[from + 1 .. to], entered with st
RECURSIVE FilterSamples(_, _, _, _, _)
FilterSamples(samples, from, to, d, st) ==
    IF to <= from THEN st
    ELSE IF to = from + 1 THEN KWeighting(samples[to], d, st)
    ELSE LET mid == (from + to) \div 2
         IN  CHOOSE after \in
                 {FilterSamples(samples, mid, to, d, half) :
                     half \in {FilterSamples(samples, from, mid, d, st)}} : TRUE

\* mean square of the filtered samples over the channels, every channel
\* filtered from zeroed taps: by_channel[ch + 1] are the samples of channel ch
RECURSIVE EnergyOfSamples(_, _, _, _)
EnergyOfSamples(by_channel, ch, d, acc) ==
    IF ch > Len(by_channel) THEN acc.q
    ELSE EnergyOfSamples(by_channel, ch + 1, d,
            FilterSamples(by_channel[ch], 0, Len(by_channel[ch]), d,
                          [x1 |-> 0, x2 |-> 0, y1 |-> 0, y2 |-> 0, acc |-> acc]).acc)

\* the gated energies of the blocks of pcm, each computed from the samples
\* of the block alone
FromBlockSamplesAlone(block_size, hop) ==
    LET samples_per_channel == PcmLength(pcm) \div num_channels
        count == Cardinality({k \in 0..(samples_per_channel \div hop) :
                                 k * hop + block_size <= samples_per_channel})
        each  == SubSeq([k \in 1..count |->
                     EnergyOfSamples(
                         SubSeq([c \in 1..num_channels |->
                                    BlockSamples(pcm, num_channels, (k - 1) * hop,
                                                 block_size, c - 1)], 1, num_channels),
                         1, Visited(block_size) * num_channels, [q |-> 0, r |-> 0])],
                     1, count)
    IN  SelectSeq(each, PassesAbsoluteGate)

\* C20: calculate_block_energy starts every channel of every block with
\* zeroed taps, so the energy of a block is a function of the samples
\* start .. start + block_size - 1 of each channel alone: it does not depend
\* on the samples before the block, on the blocks computed before, or on
\* earlier calls.
C20_FreshFilterState ==
    /\ lpc \in {"momentary", "short", "integrated", "done"} =>
           loud.momentary_energies =
               FromBlockSamplesAlone(MOMENTARY_BLOCK_SIZE, MOMENTARY_HOP)
    /\ lpc \in {"short", "integrated", "done"} =>
           loud.short_term_energies =
               FromBlockSamplesAlone(SHORT_TERM_BLOCK_SIZE, SHORT_TERM_HOP)

\* thirty momentary blocks, all above the gate: the first and the
\* thirteenth hold the same samples, the one at the start of the buffer, the
\* other after samples of another level, and have the same energy; the
\* seventh holds other samples and has another energy
C20_Witness ==
    /\ lpc = "momentary"
    /\ num_channels = 2
    /\ pcm.motif = <<10000, 25000>>
    /\ Len(loud.momentary_energies) = 30
    /\ loud.momentary_energies[13] = loud.momentary_energies[1]
    /\ loud.momentary_energies[7] # loud.momentary_energies[1]
    /\ loud.momentary_energies[1] > 0

-----------------------------------------------------------------------------
(* Properties of the vote of detect_key *)

\* detect_key has voted, on the results of a chroma or on results at hand
Voted == KeyDetected \/ mpc = "voted"

\* the bin of a family winner: root for major, root + 12 for minor
BinOf(winner) == IF winner.is_major THEN winner.root ELSE winner.root + 12

\* the total of bin b: confidence x familyWeight of the winners of that bin
BinTotal(results, b) ==
    SumSeq([k \in 1..Len(results) |->
               IF BinOf(results[k].result) = b
               THEN results[k].result.confidence * results[k].weight ELSE 0])

\* the sum of the 24 bins
AllBins(results) ==
    SumSeq([k \in 1..Len(results) |-> results[k].result.confidence * results[k].weight])

\* C21: calculate_weighted_consensus adds confidence x familyWeight of each
\* family winner to the bin of the winner; the key returned is (b mod 12,
\* b < 12) for a bin b holding the maximum total; the consensus confidence is
\* that total divided by the sum of all bins, 0 when the sum is 0, and lies
\* in [0, 1].
C21_WeightedConsensus ==
    Voted =>
        LET results == mus.key.profile_results
            c       == mus.key.consensus
            sum     == AllBins(results)
        IN  /\ \E b \in 0..23 :
                   /\ \A j \in 0..23 : BinTotal(results, j) <= BinTotal(results, b)
                   /\ c.root = b % 12
                   /\ c.is_major = (b < 12)
                   /\ c.confidence = IF sum = 0 THEN 0
                                     ELSE (BinTotal(results, b) * 1000) \div sum
            /\ c.confidence >= 0
            /\ c.confidence <= 1000
            /\ mus.key.root = c.root
            /\ mus.key.is_major = c.is_major

\* a minor key wins against votes for two other keys, with a share of the
\* votes that is neither nothing nor everything, and the EDM-A family, of the
\* greatest weight, has lost
C21_Witness ==
    /\ mpc = "voted"
    /\ ~mus.key.consensus.is_major
    /\ mus.key.consensus.confidence \in 400..700
    /\ BinOf(mus.key.profile_results[1].result) # BinOf(mus.key.consensus)
    /\ mus.key.profile_results[1].result.confidence = 1000
    /\ Cardinality({BinOf(mus.key.profile_results[k].result) : k \in 1..5}) = 3

\* the semitones from the root of r1 up to the root of r2
RootsApart(r1, r2) == (r2.root + 12 - r1.root) % 12

\* the agreement of two family winners as the table of the specification
\* gives it
TableAgreement(r1, r2) ==
    IF r1.root = r2.root /\ r1.is_major = r2.is_major THEN 1000
    ELSE IF r1.root = r2.root THEN 700
    ELSE IF RootsApart(r1, r2) \in {3, 9} /\ r1.is_major # r2.is_major THEN 600
    ELSE IF RootsApart(r1, r2) \in {5, 7} THEN 400
    ELSE 0

\* C22: for every pair of family winners the agreement is 1.0 iff root and
\* mode are the same, 0.7 iff the root is the same and the mode is not, 0.6 iff
\* the roots are 3 semitones apart, either way, and the modes are opposite,
\* 0.4 iff the roots are 7 semitones apart, either way, and no earlier case
\* applies, 0 otherwise; two winners of one mode with roots 3 semitones apart
\* do not get 0.6.
C22_AgreementTable ==
    Voted =>
        \A i, j \in 1..5 :
            i < j => mus.key.agreements[<<i, j>>] =
                        TableAgreement(mus.key.profile_results[i].result,
                                       mus.key.profile_results[j].result)

\* detect_key on a chroma with energy on C, D and G#: the Krumhansl family
\* returns C minor, the Temperley family A minor, and the agreement of the
\* two, of one mode and three semitones apart, is 0.6
C22_SameModeGetsRelative ==
    /\ KeyDetected
    /\ chroma = Template(0, {0, 2, 8}, 333)
    /\ mus.key.profile_results[3].result.root = 0
    /\ ~mus.key.profile_results[3].result.is_major
    /\ mus.key.profile_results[4].result.root = 9
    /\ ~mus.key.profile_results[4].result.is_major
    /\ mus.key.agreements[<<3, 4>>] = 600

\* the pairs i < j of the five family winners
WinnerPairs == {pair \in (1..5) \X (1..5) : pair[1] < pair[2]}

\* agreement(i, j) x sqrt(conf_i x conf_j), summed over the pairs and divided
\* by their number
AverageAgreement ==
    LET results == mus.key.profile_results
        term    == [pair \in WinnerPairs |->
                       (mus.key.agreements[pair]
                          * ISqrt(results[pair[1]].result.confidence
                                    * results[pair[2]].result.confidence)) \div 1000]
    IN  (term[<<1, 2>>] + term[<<1, 3>>] + term[<<1, 4>>] + term[<<1, 5>>]
         + term[<<2, 3>>] + term[<<2, 4>>] + term[<<2, 5>>]
         + term[<<3, 4>>] + term[<<3, 5>>] + term[<<4, 5>>]) \div 10

\* C23: calculate_profile_agreement returns the larger of 0.3 and the average,
\* over the pairs i < j of the five family winners, of agreement(i, j) x
\* sqrt(conf_i x conf_j); the factor lies in [0.3, 1.0]; the final confidence
\* is consensus confidence x factor, limited to [0.05, 0.95].
C23_AgreementFactor ==
    Voted =>
        LET factor  == mus.key.agreement_factor
            product == (mus.key.consensus.confidence * factor) \div 1000
        IN  /\ factor = IF AverageAgreement > 300 THEN AverageAgreement ELSE 300
            /\ factor >= 300
            /\ factor <= 1000
            /\ mus.key.confidence = IF product < 50 THEN 50
                                    ELSE IF product > 950 THEN 950 ELSE product

\* winners that agree too little: the average is below 0.3 and not zero, the
\* factor is 0.3, and the product with the consensus confidence is inside the
\* limits
C23_Witness ==
    /\ mpc = "voted"
    /\ AverageAgreement \in 1..299
    /\ mus.key.agreement_factor = 300
    /\ mus.key.confidence = (mus.key.consensus.confidence * 300) \div 1000
    /\ mus.key.confidence > 50

-----------------------------------------------------------------------------
(* Properties of the scale strength *)

\* the chroma energy at `interval` semitones above root
EnergyAbove(root, interval) == chroma[((root + interval) % 12) + 1]

\* the sum of f over the intervals of a set
RECURSIVE SumOver(_, _)
SumOver(intervals, f) ==
    IF intervals = {} THEN 0
    ELSE LET d == CHOOSE x \in intervals : TRUE
         IN  f[d] + SumOver(intervals \ {d}, f)

\* the weights of the degrees of a pattern, in tenths
WeightsUsed(pattern) == SumOver(pattern, [d \in 0..11 |-> DegreeWeight(d)])

\* inScale x WeightsUsed x (12 - pattern length): the in-scale energy weighted
\* by degree, on the denominator it shares with OutScalePart
InScalePart(pattern, root) ==
    SumOver(pattern, [d \in 0..11 |-> EnergyAbove(root, d) * DegreeWeight(d)])
        * (12 - Cardinality(pattern))

\* twice the out-of-scale energy, in thousandths
OutScaleTwice(pattern, root) ==
    SumOver((0..11) \ pattern, [d \in 0..11 |-> 2 * EnergyAbove(root, d)])

\* outScale x WeightsUsed x (12 - pattern length)
OutScalePart(pattern, root) == OutScaleTwice(pattern, root) * WeightsUsed(pattern)

\* inScale / (inScale + outScale), in millionths
FitRatioOf(pattern, root) ==
    MulDivRound(InScalePart(pattern, root), 1000000,
                InScalePart(pattern, root) + OutScalePart(pattern, root))

\* 1 / (1 + 3 x outScale), in millionths
PenaltyOf(pattern, root) ==
    MulDivRound(1000 * (12 - Cardinality(pattern)), 1000000,
                1000 * (12 - Cardinality(pattern)) + 3 * OutScaleTwice(pattern, root))

\* C24 as it is stated: the strength is (inScale / (inScale + outScale))^0.8
\* x 1 / (1 + 3 x outScale), the power taken of the fit ratio only, to within
\* 0.001; it is 0 when inScale + outScale = 0.
C24_Original_PenaltyOutside ==
    mpc = "done" =>
        \A k \in 1..CandidateCount :
            LET pattern == CandidatePattern(k).pattern
                root    == CandidateRoot(k)
            IN  IF InScalePart(pattern, root) + OutScalePart(pattern, root) = 0
                THEN mus.strengths[k] = 0
                ELSE Abs(mus.strengths[k]
                         - MulMillionths(Powf08(FitRatioOf(pattern, root)),
                                         PenaltyOf(pattern, root))) <= 1000

\* C24: for every chroma, pattern and root the strength is
\* ((inScale / (inScale + outScale)) x 1 / (1 + 3 x outScale))^0.8, the power
\* taken of the product of fit ratio and penalty; it is 0 when inScale +
\* outScale = 0.
C24_ScaleStrength ==
    mpc = "done" =>
        \A k \in 1..CandidateCount :
            LET pattern == CandidatePattern(k).pattern
                root    == CandidateRoot(k)
            IN  IF InScalePart(pattern, root) + OutScalePart(pattern, root) = 0
                THEN mus.strengths[k] = 0
                ELSE mus.strengths[k] =
                         Powf08(MulMillionths(FitRatioOf(pattern, root),
                                              PenaltyOf(pattern, root)))

\* a candidate whose root is not C, with energy inside and outside the
\* scale: its strength is further than 0.01 from the power of the fit ratio
\* times the penalty
C24_Witness ==
    /\ mpc = "done"
    /\ \E k \in 1..CandidateCount :
           LET pattern == CandidatePattern(k).pattern
               root    == CandidateRoot(k)
           IN  /\ root > 0
               /\ InScalePart(pattern, root) > 0
               /\ OutScaleTwice(pattern, root) > 0
               /\ mus.strengths[k] > 0
               /\ mus.strengths[k]
                      > 10000 + MulMillionths(Powf08(FitRatioOf(pattern, root)),
                                              PenaltyOf(pattern, root))

-----------------------------------------------------------------------------
(* Properties of the two gates together *)

\* the blocks of greatest energy of a non-empty sequence
MaxEnergyBlocks(energies) ==
    {i \in 1..Len(energies) : \A j \in 1..Len(energies) : energies[j] <= energies[i]}

\* -0.691 + 10 log10(energy + 1e-10) of one block, in milli-dB
LoudnessOfEnergy(energy) == -691 + TenLog10Milli(energy + 1) - 100000

\* C25: when the absolute-gated momentary sequence is not empty, every block
\* of maximum energy has loudness >= preliminary loudness - 10 and is kept by
\* the relative gate, so the integrated loudness is finite; the integrated
\* loudness is negative infinity iff the absolute-gated sequence is empty, and
\* the relative gate never leaves an empty set behind a non-empty one.
C25_RelativeGateKeepsMaximum ==
    lpc \in {"integrated", "done"} =>
        /\ loud.momentary_energies # <<>> =>
              /\ \A i \in MaxEnergyBlocks(loud.momentary_energies) :
                     /\ LoudnessOfEnergy(loud.momentary_energies[i])
                            >= loud.preliminary_loudness - 10000
                     /\ \E k \in 1..Len(loud.rel_gated) :
                            loud.rel_gated[k] = loud.momentary_energies[i]
              /\ loud.rel_gated # <<>>
              /\ loud.integrated_loudness > NEG_INFINITY
        /\ (loud.integrated_loudness = NEG_INFINITY) <=> (loud.momentary_energies = <<>>)

\* The relative gate has removed blocks of a buffer whose blocks differ, and
\* the loudest block is among those kept.
C25_Witness ==
    /\ lpc = "integrated"
    /\ loud.rel_gated # <<>>
    /\ Len(loud.rel_gated) < Len(loud.momentary_energies)
    /\ \E i \in MaxEnergyBlocks(loud.momentary_energies) :
           loud.rel_gated[1] < loud.momentary_energies[i]

-----------------------------------------------------------------------------
(* Ties in the key vote *)

\* the bins holding the greatest total
MaximalBins(results) ==
    {b \in 0..23 : \A j \in 0..23 : BinTotal(results, j) <= BinTotal(results, b)}

\* the place of a key in the order test_profile_set tries the keys: C major,
\* C minor, C# major, C# minor, ..
TrialOrder(winner) == 2 * winner.root + (IF winner.is_major THEN 0 ELSE 1)

\* the correlation of the chroma with family k in the key of place n
TrialCorrelation(k, n) ==
    calculate_enhanced_correlation(
        chroma, IF n % 2 = 0 THEN ProfileSets[k].major ELSE ProfileSets[k].minor, n \div 2)

\* the correlation of the flat chroma with family k in the key of place n
FlatTrialCorrelation(k, n) ==
    FlatCorrelation[chroma[1],
                    IF n % 2 = 0 THEN ProfileSets[k].major ELSE ProfileSets[k].minor]

\* family k correlates more with the chroma in the key of place n than in the
\* key of place m
TrialGreater(k, n, m) ==
    IF IsFlat(chroma)
    THEN F32Gt(FlatTrialCorrelation(k, n), FlatTrialCorrelation(k, m))
    ELSE TrialCorrelation(k, n) > TrialCorrelation(k, m)

\* family k's winner is the first of the keys of greatest correlation
FirstOfTheBest(k, winner) ==
    /\ \A n \in 0..23 : ~TrialGreater(k, n, TrialOrder(winner))
    /\ \A n \in 0..23 : n < TrialOrder(winner) => TrialGreater(k, TrialOrder(winner), n)

\* C27: of several vote bins with the same greatest total
\* calculate_weighted_consensus returns the one of highest index, so a minor
\* bin wins over a major bin and a higher root over a lower root; inside one
\* family test_profile_set keeps the first of the keys of greatest
\* correlation, the lowest root and major before minor on one root.
C27_TieBreaking ==
    /\ Voted =>
          /\ BinOf(mus.key.consensus) \in MaximalBins(mus.key.profile_results)
          /\ \A b \in MaximalBins(mus.key.profile_results) : b <= BinOf(mus.key.consensus)
    /\ KeyDetected =>
          \A k \in 1..5 : FirstOfTheBest(k, mus.key.profile_results[k].result)

\* Results at hand: a major and a minor bin hold the same greatest total, not
\* zero, of different families, and the minor bin has won.
C27_Witness ==
    /\ mpc = "voted"
    /\ Cardinality(MaximalBins(mus.key.profile_results)) = 2
    /\ \E b \in MaximalBins(mus.key.profile_results) : b < 12
    /\ BinTotal(mus.key.profile_results, BinOf(mus.key.consensus)) > 0
    /\ ~mus.key.consensus.is_major
    /\ mus.key.consensus.root < 9

\* A chroma: a family has two keys of the same greatest correlation, six
\* semitones apart, and its winner is the lower root.
C27_WitnessFamily ==
    /\ mpc = "scales"
    /\ \E k \in 1..5 :
           LET winner == mus.key.profile_results[k].result
           IN  /\ winner.root < 6
               /\ winner.confidence > 500
               /\ TrialCorrelation(k, TrialOrder(winner) + 12)
                      = TrialCorrelation(k, TrialOrder(winner))

-----------------------------------------------------------------------------
(* The scales and the detected key *)

\* C29: the list analyze_scales returns does not depend on the detected
\* root it is given: the scales analyze_music_with_skey reports are the list
\* for every root 0..11, the traditional root and the S-KEY root among them.
C29_ScalesIgnoreDetectedRoot ==
    (mpc = "done" /\ mus.stage = "scales") =>
        \E strengths \in {ScaleStrengths(chroma)} :
            \A detected_root \in 0..11 :
                analyze_scales(strengths, detected_root) = mus.scale_matches

\* The S-KEY root was taken, it is not the traditional root, and scales of
\* other roots than the S-KEY root are reported.
C29_Witness ==
    /\ mpc = "done"
    /\ mus.stage = "scales"
    /\ mus.enhanced
    /\ mus.final_result.root # mus.key.root
    /\ \E k \in 1..Len(mus.scale_matches) :
           mus.scale_matches[k].name[1] # NOTE_NAMES[mus.final_result.root + 1]

-----------------------------------------------------------------------------
(* The diagnostic fields of the loudness record *)

\* the number of momentary blocks of the buffer that pass the absolute gate
AbsGatedCount ==
    Cardinality({k \in 1..RawBlockCount(MOMENTARY_BLOCK_SIZE, MOMENTARY_HOP) :
                    AtOrAboveMinus70(RawBlocks(MOMENTARY_BLOCK_SIZE, MOMENTARY_HOP)[k])})

\* C30: in the record of analyze abs_gated_blocks, rel_gated_blocks and
\* totalBlocks are all the number of momentary blocks that passed the
\* absolute gate; preliminary_loudness is the integrated loudness after both
\* gates, before calibration; gate_threshold is that value minus 10.
C30_DiagnosticFields ==
    lpc = "done" =>
        /\ result.abs_gated_blocks = AbsGatedCount
        /\ result.rel_gated_blocks = AbsGatedCount
        /\ result.totalBlocks = AbsGatedCount
        /\ result.preliminary_loudness = loud.integrated_loudness
        /\ result.preliminary_loudness =
               IF loud.rel_gated = <<>> THEN NEG_INFINITY
               ELSE LoudnessOfEnergy(MeanSeq(loud.rel_gated))
        /\ result.gate_threshold =
               IF loud.integrated_loudness = NEG_INFINITY THEN NEG_INFINITY
               ELSE loud.integrated_loudness - 10000

\* The relative gate has removed blocks: rel_gated_blocks is above the number
\* of blocks kept, and the two loudness fields are not the preliminary
\* loudness and the threshold that gated.
C30_Witness ==
    /\ lpc = "done"
    /\ result.rel_gated_blocks > Len(loud.rel_gated)
    /\ Len(loud.rel_gated) > 0
    /\ result.totalBlocks = RawBlockCount(MOMENTARY_BLOCK_SIZE, MOMENTARY_HOP)
    /\ result.preliminary_loudness > loud.preliminary_loudness
    /\ result.gate_threshold > loud.relative_threshold

-----------------------------------------------------------------------------
(* The key of a chroma without pitch content *)

\* C28: for an all-zero or any constant chroma every correlation is 0, each of
\* the five families votes root 0, major, with confidence 0.5, and detect_key
\* returns root 0, major, with confidence 0.5: consensus share 1.0 times
\* agreement factor 0.5.
C28_FlatChromaIsCMajor ==
    (KeyDetected /\ IsFlat(chroma)) =>
        /\ \A k \in 1..5 : \A n \in 0..23 : FlatTrialCorrelation(k, n) = F32Zero
        /\ \A k \in 1..5 :
               mus.key.profile_results[k].result =
                   [root |-> 0, is_major |-> TRUE, confidence |-> 500]
        /\ mus.key.root = 0
        /\ mus.key.is_major
        /\ mus.key.consensus.confidence = 1000
        /\ mus.key.agreement_factor = 500
        /\ mus.key.confidence = 500

\* A chroma of twelve times 0.3: the correlations are not 0, the EDM-A and
\* Krumhansl families vote C minor, and detect_key returns C minor with a
\* confidence below 0.25.
C28_FlatChromaVotesMinor ==
    /\ mpc = "scales"
    /\ chroma = [i \in 1..12 |-> 300]
    /\ \E k \in 1..5 : FlatTrialCorrelation(k, 0) # F32Zero
    /\ ~mus.key.profile_results[1].result.is_major
    /\ ~mus.key.profile_results[3].result.is_major
    /\ mus.key.root = 0
    /\ ~mus.key.is_major
    /\ mus.key.confidence < 250

\* The all-zero chroma of silent or too short audio: every correlation is 0
\* and detect_key returns C major with confidence 0.5.
C28_ZeroChromaIsCMajor ==
    (KeyDetected /\ chroma = [i \in 1..12 |-> 0]) =>
        /\ \A k \in 1..5 : \A n \in 0..23 : FlatTrialCorrelation(k, n) = F32Zero
        /\ \A k \in 1..5 :
               mus.key.profile_results[k].result =
                   [root |-> 0, is_major |-> TRUE, confidence |-> 500]
        /\ mus.key.root = 0
        /\ mus.key.is_major
        /\ mus.key.confidence = 500

-----------------------------------------------------------------------------
(* Specifications *)

LoudIdle ==
    /\ num_channels = 1
    /\ pcm = EmptyBuffer
    /\ lpc = "idle"
    /\ loud = NoLocals
    /\ result = NoResult

NoHistory == [loudness |-> {}, music |-> {}]

\* MusicAnalyzer::new; nothing analysed yet
SessionInit ==
    /\ skey_enabled = TRUE
    /\ history = NoHistory
    /\ ParallelInit

\* The loudness engine alone
Init == LoudInit /\ ExtractInit /\ MusicInit /\ SessionInit /\ overflow_checks = FALSE

Next ==
    \/ NewBuffer /\ UNCHANGED <<xvars, mvars, svars>>
    \/ Discard /\ UNCHANGED <<xvars, mvars, svars>>
    \/ AnalyzeMomentary /\ UNCHANGED <<xvars, mvars, svars>>
    \/ AnalyzeShortTerm /\ UNCHANGED <<xvars, mvars, svars>>
    \/ AnalyzeIntegrated /\ UNCHANGED <<xvars, mvars, svars>>
    \/ AnalyzeReport /\ UNCHANGED <<xvars, mvars, svars>>

Spec == Init /\ [][Next]_vars

\* The chroma extractor alone
ChromaInit == LoudIdle /\ ExtractInit /\ MusicInit /\ SessionInit /\ overflow_checks = FALSE

ChromaNext ==
    \/ ExtractNewBuffer /\ UNCHANGED <<lvars, mvars, svars>>
    \/ ExtractStart /\ UNCHANGED <<lvars, mvars, svars>>
    \/ ExtractWindow /\ UNCHANGED <<lvars, mvars, svars>>
    \/ ExtractPool /\ UNCHANGED <<lvars, mvars, svars>>
    \/ ExtractDiscard /\ UNCHANGED <<lvars, mvars, svars>>

SpecChroma == ChromaInit /\ [][ChromaNext]_vars

\* The extractor, once called, runs: extract_advanced is one synchronous call,
\* so a pass of its window loop that can be made is made.
SpecChromaFair ==
    SpecChroma /\ WF_vars(ExtractWindow /\ UNCHANGED <<lvars, mvars, svars>>)

\* Key detection and scale matching alone, in a build with and in a build
\* without overflow checks
MusicSpecInit == LoudIdle /\ ExtractInit /\ MusicInit /\ SessionInit /\ overflow_checks \in BOOLEAN

MusicNext ==
    \/ MusicNewChroma /\ UNCHANGED <<lvars, xvars, svars>>
    \/ DetectKey /\ UNCHANGED <<lvars, xvars, svars>>
    \/ AnalyzeScales /\ UNCHANGED <<lvars, xvars, svars>>
    \/ MusicDiscard /\ UNCHANGED <<lvars, xvars, svars>>

SpecMusic == MusicSpecInit /\ [][MusicNext]_vars

\* The vote of detect_key, on the results of chroma vectors and on results
\* of every kind
VoteNext ==
    \/ MusicNewChroma /\ UNCHANGED <<lvars, xvars, svars>>
    \/ DetectKey /\ UNCHANGED <<lvars, xvars, svars>>
    \/ AnalyzeScales /\ UNCHANGED <<lvars, xvars, svars>>
    \/ MusicDiscard /\ UNCHANGED <<lvars, xvars, svars>>
    \/ VoteNewResults /\ UNCHANGED <<lvars, xvars, svars>>
    \/ Vote /\ UNCHANGED <<lvars, xvars, svars>>
    \/ VoteDiscard /\ UNCHANGED <<lvars, xvars, svars>>

SpecVote == ChromaInit /\ [][VoteNext]_vars

\* A session of calls, one at a time
SessionSpecInit ==
    /\ num_channels = 2
    /\ pcm = EmptyBuffer
    /\ lpc = "idle"
    /\ loud = NoLocals
    /\ result = NoResult
    /\ ExtractInit
    /\ MusicInit
    /\ SessionInit
    /\ overflow_checks = FALSE

SessionNext ==
    \/ SetSkeyEnabled /\ UNCHANGED <<lvars, xvars, mvars>>
    \/ CallAnalyze /\ UNCHANGED <<xvars, mvars, svars>>
    \/ pcm # EmptyBuffer /\ AnalyzeMomentary /\ UNCHANGED <<xvars, mvars, svars>>
    \/ AnalyzeShortTerm /\ UNCHANGED <<xvars, mvars, svars>>
    \/ AnalyzeIntegrated /\ UNCHANGED <<xvars, mvars, svars>>
    \/ AnalyzeReport /\ UNCHANGED <<xvars, mvars, svars>>
    \/ ReturnAnalyze /\ UNCHANGED <<xvars, mvars>>
    \/ CallAnalyzeMusic /\ UNCHANGED <<lvars, mvars, svars>>
    \/ xpcm.len # 0 /\ ExtractStart /\ UNCHANGED <<lvars, mvars, svars>>
    \/ ExtractWindow /\ UNCHANGED <<lvars, mvars, svars>>
    \/ ExtractPool /\ UNCHANGED <<lvars, mvars, svars>>
    \/ MusicFromExtract /\ UNCHANGED <<lvars, xvars, svars>>
    \/ DetectKey /\ UNCHANGED <<lvars, xvars, svars>>
    \/ AnalyzeScales /\ UNCHANGED <<lvars, xvars, svars>>
    \/ ReturnAnalyzeMusic /\ UNCHANGED lvars

SpecSession == SessionSpecInit /\ [][SessionNext]_vars

\* Two invocations on one two-channel analyzer, their steps interleaved
ParallelNext ==
    \/ \E i \in Invocations : ParallelCallAnalyze(i) /\ UNCHANGED <<lvars, xvars, mvars, skey_enabled, history>>
    \/ \E i \in Invocations : ParallelCallAnalyzeMusic(i) /\ UNCHANGED <<lvars, xvars, mvars, skey_enabled, history>>
    \/ \E i \in Invocations : ParallelFilterChannel(i) /\ UNCHANGED <<lvars, xvars, mvars, skey_enabled, history>>
    \/ \E i \in Invocations : ParallelPushBlock(i) /\ UNCHANGED <<lvars, xvars, mvars, skey_enabled, history>>
    \/ \E i \in Invocations : ParallelReturnBlocks(i) /\ UNCHANGED <<lvars, xvars, mvars, skey_enabled, history>>
    \/ \E i \in Invocations : ParallelReport(i) /\ UNCHANGED <<lvars, xvars, mvars, skey_enabled, history>>
    \/ \E i \in Invocations : ParallelWindow(i) /\ UNCHANGED <<lvars, xvars, mvars, skey_enabled, history>>
    \/ \E i \in Invocations : ParallelPool(i) /\ UNCHANGED <<lvars, xvars, mvars, skey_enabled, history>>
    \/ \E i \in Invocations : ParallelVote(i) /\ UNCHANGED <<lvars, xvars, mvars, skey_enabled, history>>
    \/ \E i \in Invocations : ParallelConsensus(i) /\ UNCHANGED <<lvars, xvars, mvars, skey_enabled, history>>
    \/ \E i \in Invocations : ParallelScales(i) /\ UNCHANGED <<lvars, xvars, mvars, skey_enabled, history>>
    \/ \E i \in Invocations : ParallelReturn(i) /\ UNCHANGED <<lvars, xvars, mvars, skey_enabled, history>>

SpecParallel == SessionSpecInit /\ [][ParallelNext]_vars

\* Calls of analyze_music_with_skey, one at a time
SkeyNext ==
    \/ SetSkeyEnabled /\ UNCHANGED <<lvars, xvars, mvars>>
    \/ CallAnalyzeMusicWithSkey /\ UNCHANGED <<lvars, mvars, svars>>
    \/ xpcm \in SkeyPcm /\ ExtractStart /\ UNCHANGED <<lvars, mvars, svars>>
    \/ ExtractWindow /\ UNCHANGED <<lvars, mvars, svars>>
    \/ ExtractPool /\ UNCHANGED <<lvars, mvars, svars>>
    \/ MusicFromExtract /\ UNCHANGED <<lvars, xvars, svars>>
    \/ DetectKey /\ UNCHANGED <<lvars, xvars, svars>>
    \/ TrySkey /\ UNCHANGED <<lvars, xvars, svars>>
    \/ SkeyScales /\ UNCHANGED <<lvars, xvars, svars>>
    \/ ReturnSkey /\ UNCHANGED <<lvars, svars>>

SpecSkey == SessionSpecInit /\ [][SkeyNext]_vars

=============================================================================
